---- MODULE Spec2Model ----
(***************************************************************************)
(* Project Onigari: the vacancy analysis pipeline.                         *)
(*                                                                         *)
(*   Spec        the record pipeline over the PostgreSQL tables: one       *)
(*               crawler and one vectorizer process, NumWorkers LLM worker *)
(*               processes, each running run_llm_requests.main.            *)
(*   SpecSingle  the same with one process of each kind.                   *)
(*   SpecStages  the same with NumVectorizers vectorizer processes and one *)
(*               LLM worker.                                               *)
(*   SpecRouter  one SmartChainProvider serving requests over a list of    *)
(*               BaseProvider adapters with cooldown health.               *)
(*   SpecHealth  the adapters' health state under mark_failed calls and    *)
(*               the passing of time.                                      *)
(*   SpecRetry   one call of a function decorated by retry_on_rate_limit:  *)
(*               the decorator with its default arguments around a plain   *)
(*               function, GeminiProvider.analyze, OpenAIProvider.analyze. *)
(*                                                                         *)
(*   SpecAnalyzer one call of VacancyAnalyzer.analyze_vacancy over the     *)
(*               answers of its provider.                                  *)
(*                                                                         *)
(*   SpecLoop    SpecSingle with one answer for every backend call.        *)
(*   SpecShutdown SpecLoop with SIGINT/SIGTERM arriving at any await of    *)
(*               the worker, and weak fairness on the worker's steps.      *)
(*   SpecIdle    SpecShutdown with fairness only on the steps a set stop   *)
(*               flag enables.                                             *)
(*   SpecAppend  NumWorkers LLM workers over a store that holds one        *)
(*               VECTORIZED record, crawler and vectorizer at rest.        *)
(*   SpecUpsert  the vacancies table row by row under the repository's     *)
(*               calls, with empty attributes.                             *)
(*   SpecMerge   the same with the attributes column drawn from the DTO    *)
(*               and Stage-1 outputs.                                      *)
(*                                                                         *)
(* In Spec, SpecStages, SpecLoop and SpecShutdown every backend call       *)
(* returns the same token count and judgment; SpecSingle draws them from   *)
(* TokenCounts and RawScores.                                              *)
(*                                                                         *)
(* The database is PostgreSQL at READ COMMITTED: a transaction's writes    *)
(* become visible at commit, an UPDATE/SELECT FOR UPDATE holds its row     *)
(* locks until the transaction ends, an UPDATE statement works on the rows *)
(* its snapshot saw.                                                       *)
(***************************************************************************)
EXTENDS Integers, Sequences, FiniteSets, TLC

\* ---- bounds ----
NumVacancies == 2
NumWorkers == 2
NumVectorizers == 2
MaxAnalyses == 3
NumProviders == 3
\* the adapters' cooldown window and the length of the modelled run, in clock ticks
CooldownTicks == 2
MaxTicks == 4
\* the largest token count a backend call reports
MaxTokens == 1
NumHashes == 2
MaxBatch == 2
NumFacts == 1

Ids == 1..NumVacancies
Workers == 1..NumWorkers
Vectorizers == 1..NumVectorizers
AnalysisIds == 1..MaxAnalyses
Providers == 1..NumProviders
\* time.time() at start-up: far beyond the cooldown from _last_failure_time = 0.0
StartTime == CooldownTicks + 1

\* ---- program constants ----
LLM_BATCH_LIMIT == 10
CRAWL_LIMIT == 20
VECTORIZER_LIMIT == 16
\* VacancyJudgment.trust_score: Field(ge=0, le=10)
MIN_TRUST_SCORE == 0
MAX_TRUST_SCORE == 10
\* retry_on_rate_limit(retries, base_delay): the defaults and the two uses
DEFAULT_RETRIES == 3
DEFAULT_BASE_DELAY == 60
GEMINI_RETRIES == 3
GEMINI_BASE_DELAY == 60
OPENAI_RETRIES == 3
OPENAI_BASE_DELAY == 30

\* database/enums.py VacancyStatus, plus the member service.py writes
VacancyStatus == {"new", "extracted", "analyzed", "vectorized", "archived", "failed"}
STRUCTURED == "structured"
ABSENT == "absent"

\* keys save_stage1_result writes into Vacancy.attributes
Stage1AttributeKeys == {"tech_stack", "benefits", "red_flag_keywords", "domain"}
\* keys a VacancyDetailDTO.attributes may carry
DetailAttributeKeys == {"detail"}

\* total_tokens of a backend call: usage.total_token_count, 0 without usage
TokenCounts == 0..MaxTokens
\* trust_score values a backend may put into its JSON answer
RawScores == {MIN_TRUST_SCORE - 1, MIN_TRUST_SCORE, MIN_TRUST_SCORE + 1, MAX_TRUST_SCORE + 1}
\* what the try block of process_vacancy can raise at a stage call and at
\* a database call
StageErrors == {"ProviderError", "ValidationError", "AnalysisError"}
DbErrors == {"SQLAlchemyError"}

VARIABLES
    \* ---- table vacancies (committed state) ----
    status,            \* Vacancy.status, ABSENT when the row does not exist
    description,       \* Vacancy.description is set
    embedding,         \* Vacancy.embedding is set
    attributes,        \* top-level keys of Vacancy.attributes
    last_analysis_id,  \* Vacancy.last_analysis_id, 0 for NULL
    \* ---- table vacancy_analyses (committed rows) ----
    analyses,          \* set of [id, vacancy_id, is_current, trust_score,
                       \*         error_message, tokens_used]
    nextId,            \* the id sequence of vacancy_analyses
    \* ---- row locks of the claim sessions ----
    claimLock,         \* [Ids -> Workers \cup {0}] : FOR UPDATE holder
    \* ---- LLM workers (run_llm_requests.main / process_vacancy) ----
    wpc,               \* position of each worker
    batch,             \* vacancy_ids still to process
    cur,               \* v_id being processed, 0 when none
    snap,              \* rows seen by the is_current reset UPDATE
    ins,               \* id of the inserted, uncommitted VacancyAnalysis
    s1_tokens,         \* process_vacancy local s1_tokens
    s2_tokens,         \* process_vacancy local s2_tokens
    res,               \* process_vacancy local result (VacancyAnalysisResult)
    exc,               \* the exception process_vacancy caught and the call that
                       \* raised it
    stage1_cost,       \* history: token count of the Stage-1 call whose facts
                       \* each record carries
    stop_event,        \* main's stop_event of each worker process is set
    \* ---- table vacancies row by row (database/service.py) ----
    table,             \* the stored rows: id, identity_hash, status, attributes
    returned,          \* what the last batch_upsert returned
    last_op,           \* history: the last repository call and its argument
    \* ---- crawler (main.py) and vectorizer (run_vectorizer.py) ----
    cbatch,            \* pending_vacancies of DetailCrawler.crawl
    vbatch,            \* vacancies read by each vectorizer loop
    \* ---- SmartChainProvider and its adapters (brain/manager.py, providers.py) ----
    now,               \* time.time()
    last_failure_time, \* BaseProvider._last_failure_time of each adapter
    last_used,         \* SmartChainProvider._last_used_provider, 0 for None
    rpc,               \* position of the request inside SmartChainProvider.analyze
    idx,               \* the adapter the for loop is at
    result,            \* how the request ended
    \* ---- history of the request in progress ----
    startHealthy,      \* adapters healthy when the request started
    checks,            \* is_healthy() calls per adapter
    calls,             \* analyze() invocations per adapter
    marks,             \* mark_failed() calls by the router per adapter
    ret,               \* what each adapter's analyze returned or raised
    lftBefore,         \* _last_failure_time of the invoked adapter at invocation
    healthyAtCheck,    \* adapters whose is_healthy() answered True
    ptokens,           \* the token count the serving adapter returned
    rtokens,           \* the token count SmartChainProvider.analyze returned
    failed_at,         \* history: the time of each adapter's latest mark_failed()
    \* ---- one call of a function decorated by retry_on_rate_limit ----
    dfn,               \* the decorated function being called
    dpc,               \* position inside wrapper
    attempt,           \* the loop variable of wrapper
    invocations,       \* history: calls of the wrapped function
    sleeps,            \* history: the delays slept, in order
    raised,            \* history: what each call of the wrapped function answered
    backend,           \* history: what the SDK call inside each of those calls did
    self_marks,        \* history: self.mark_failed() calls inside the wrapped function
    dresult,           \* what the decorated call returned or raised
    \* ---- one call of VacancyAnalyzer.analyze_vacancy (brain/analyzer.py) ----
    apc,               \* position of the call
    ain,               \* history: what provider.analyze answers at each stage
    aout               \* what analyze_vacancy returned or raised

dbVars == <<status, description, embedding, attributes, last_analysis_id,
            analyses, nextId, claimLock>>
workerVars == <<wpc, batch, cur, snap, ins, s1_tokens, s2_tokens, res, exc, stage1_cost>>
stageVars == <<cbatch, vbatch>>
stopVars == <<stop_event>>
tableVars == <<table, returned, last_op>>
routerVars == <<now, last_failure_time, last_used, rpc, idx, result,
                startHealthy, checks, calls, marks, ret, lftBefore,
                healthyAtCheck, ptokens, rtokens, failed_at>>
retryVars == <<dfn, dpc, attempt, invocations, sleeps, raised, backend, self_marks,
              dresult>>
analyzerVars == <<apc, ain, aout>>
pipelineVars == <<status, description, embedding, attributes, last_analysis_id,
                  analyses, nextId, claimLock, wpc, batch, cur, snap, ins,
                  s1_tokens, s2_tokens, res, exc, stage1_cost, cbatch, vbatch,
                  stop_event>>
vars == <<status, description, embedding, attributes, last_analysis_id,
          analyses, nextId, claimLock, wpc, batch, cur, snap, ins,
          s1_tokens, s2_tokens, res, exc, stage1_cost, cbatch, vbatch,
          stop_event, table, returned, last_op,
          now, last_failure_time, last_used, rpc, idx, result,
          startHealthy, checks, calls, marks, ret, lftBefore,
          healthyAtCheck, ptokens, rtokens, failed_at,
          dfn, dpc, attempt, invocations, sleeps, raised, backend, self_marks, dresult,
          apc, ain, aout>>

Min(a, b) == IF a < b THEN a ELSE b

\* SELECT ... LIMIT n without ORDER BY: any n of the qualifying rows
Limit(S, n) == {T \in SUBSET S : Cardinality(T) = Min(n, Cardinality(S))}

\* no VacancyAnalysisResult at hand
NoResult == [trust_score |-> MIN_TRUST_SCORE - 1, error_message |-> FALSE, tokens_used |-> 0]

\* no exception caught
NoException == [cls |-> "none", at |-> "none"]

InitDb ==
    /\ status = [v \in Ids |-> ABSENT]
    /\ description = [v \in Ids |-> FALSE]
    /\ embedding = [v \in Ids |-> FALSE]
    /\ attributes = [v \in Ids |-> {}]
    /\ last_analysis_id = [v \in Ids |-> 0]
    /\ analyses = {}
    /\ nextId = 1
    /\ claimLock = [v \in Ids |-> 0]

InitWorkers ==
    /\ wpc = [w \in Workers |-> "poll"]
    /\ batch = [w \in Workers |-> {}]
    /\ cur = [w \in Workers |-> 0]
    /\ snap = [w \in Workers |-> {}]
    /\ ins = [w \in Workers |-> 0]
    /\ s1_tokens = [w \in Workers |-> 0]
    /\ s2_tokens = [w \in Workers |-> 0]
    /\ res = [w \in Workers |-> NoResult]
    /\ exc = [w \in Workers |-> NoException]
    /\ stage1_cost = [v \in Ids |-> 0]
    /\ stop_event = [w \in Workers |-> FALSE]

InitStages ==
    /\ cbatch = {}
    /\ vbatch = [z \in Vectorizers |-> {}]

NoHistory ==
    /\ startHealthy' = {}
    /\ checks' = [p \in Providers |-> 0]
    /\ calls' = [p \in Providers |-> 0]
    /\ marks' = [p \in Providers |-> 0]
    /\ ret' = [p \in Providers |-> "none"]
    /\ lftBefore' = 0
    /\ healthyAtCheck' = {}
    /\ ptokens' = 0
    /\ rtokens' = 0

InitRouter ==
    /\ now = StartTime
    /\ last_failure_time = [p \in Providers |-> 0]
    /\ last_used = 0
    /\ rpc = "idle"
    /\ idx = 0
    /\ result = "none"
    /\ startHealthy = {}
    /\ checks = [p \in Providers |-> 0]
    /\ calls = [p \in Providers |-> 0]
    /\ marks = [p \in Providers |-> 0]
    /\ ret = [p \in Providers |-> "none"]
    /\ lftBefore = 0
    /\ healthyAtCheck = {}
    /\ ptokens = 0
    /\ rtokens = 0
    /\ failed_at = [p \in Providers |-> {}]

\* an answer that is no exception and no value yet
NoAnswer == [cls |-> "none", msg |-> {}]

InitRetry ==
    /\ dfn = "none"
    /\ dpc = "idle"
    /\ attempt = 0
    /\ invocations = 0
    /\ sleeps = <<>>
    /\ raised = <<>>
    /\ backend = <<>>
    /\ self_marks = 0
    /\ dresult = NoAnswer

InitTable ==
    /\ table = {}
    /\ returned = 0
    /\ last_op = [name |-> "none", arg |-> <<>>]

\* analyze_vacancy neither returned nor raised
NoOutcome ==
    [raised |-> "none", grade |-> "none", trust_score |-> MIN_TRUST_SCORE - 1,
     verdict |-> "none", tokens_used |-> 0, confidence_score |-> 0, error_message |-> "none"]

InitAnalyzer ==
    /\ apc = "idle"
    /\ ain = <<>>
    /\ aout = NoOutcome

Init ==
    /\ InitDb /\ InitWorkers /\ InitStages /\ InitTable /\ InitRouter /\ InitRetry
    /\ InitAnalyzer

\* ------------------------------------------------------------------------
\* Row locks held by open transactions
\* ------------------------------------------------------------------------

\* worker w has inserted a VacancyAnalysis for v and not committed:
\* the foreign key holds FOR KEY SHARE on the vacancy row
HoldsKeyShare(w, v) == cur[w] = v /\ wpc[w] \in {"s2_update", "s2_commit"}

\* worker w has updated the vacancy row of v and not committed
HoldsRowUpdate(w, v) == cur[w] = v /\ wpc[w] = "s2_commit"

\* worker w has updated (reset) analysis row a and not committed
HoldsAnalysisRow(w, a) ==
    a \in snap[w] /\ wpc[w] \in {"s2_insert", "s2_update", "s2_commit"}

\* an UPDATE of vacancy v by w has to wait
UpdateBlocked(w, v) ==
    \/ claimLock[v] \notin {0, w}
    \/ \E o \in Workers \ {w} : HoldsRowUpdate(o, v)

\* SELECT ... FOR UPDATE SKIP LOCKED passes over the row
SkipLocked(v) ==
    \/ claimLock[v] # 0
    \/ \E o \in Workers : HoldsKeyShare(o, v) \/ HoldsRowUpdate(o, v)

\* ------------------------------------------------------------------------
\* VacancyRepository
\* ------------------------------------------------------------------------

\* the claim query without its status filter
get_vacancies_for_llm_processing_AnyStatus(limit) ==
    Limit({v \in Ids : status[v] # ABSENT /\ ~SkipLocked(v)}, limit)

\* rows the LLM claim query returns: status filter, limit, skip locked
get_vacancies_for_llm_processing(limit) ==
    Limit({v \in Ids : status[v] \in {"vectorized", STRUCTURED} /\ ~SkipLocked(v)}, limit)

get_vacancies_by_status(st, limit) ==
    Limit({v \in Ids : status[v] = st}, limit)

\* INSERT ... ON CONFLICT (identity_hash) DO NOTHING
batch_upsert(S) ==
    /\ status' = [v \in Ids |-> IF v \in S /\ status[v] = ABSENT THEN "new" ELSE status[v]]
    /\ UNCHANGED <<description, embedding, attributes, last_analysis_id,
                   analyses, nextId, claimLock>>

update_vacancy_details(v, attrs) ==
    /\ status' = [status EXCEPT ![v] = "extracted"]
    /\ description' = [description EXCEPT ![v] = TRUE]
    /\ attributes' = [attributes EXCEPT ![v] = attrs]
    /\ UNCHANGED <<embedding, last_analysis_id, analyses, nextId, claimLock>>

batch_update_vectors(S, new_status) ==
    /\ status' = [v \in Ids |-> IF v \in S THEN new_status ELSE status[v]]
    /\ embedding' = [v \in Ids |-> IF v \in S THEN TRUE ELSE embedding[v]]
    /\ UNCHANGED <<description, attributes, last_analysis_id, analyses, nextId, claimLock>>

save_stage1_result(v) ==
    /\ status' = [status EXCEPT ![v] = STRUCTURED]
    /\ attributes' = [attributes EXCEPT ![v] = @ \cup Stage1AttributeKeys]
    /\ UNCHANGED <<description, embedding, last_analysis_id, analyses, nextId, claimLock>>

\* the commit without the pointer: the vacancy update sets the status only
save_stage2_commit_NoPointer(w, v) ==
    /\ analyses' = {IF a.id \in snap[w] THEN [a EXCEPT !.is_current = FALSE] ELSE a : a \in analyses}
                      \cup {[id |-> ins[w], vacancy_id |-> v, is_current |-> TRUE,
                              trust_score |-> res[w].trust_score,
                              error_message |-> res[w].error_message,
                              tokens_used |-> res[w].tokens_used]}
    /\ status' = [status EXCEPT ![v] = "analyzed"]
    /\ UNCHANGED <<description, embedding, attributes, last_analysis_id, nextId, claimLock>>

\* the commit that replaces the record's results: the rows the reset saw
\* are deleted
save_stage2_commit_Replaces(w, v) ==
    /\ analyses' = {a \in analyses : a.id \notin snap[w]}
                      \cup {[id |-> ins[w], vacancy_id |-> v, is_current |-> TRUE,
                              trust_score |-> res[w].trust_score,
                              error_message |-> res[w].error_message,
                              tokens_used |-> res[w].tokens_used]}
    /\ status' = [status EXCEPT ![v] = "analyzed"]
    /\ last_analysis_id' = [last_analysis_id EXCEPT ![v] = ins[w]]
    /\ UNCHANGED <<description, embedding, attributes, nextId, claimLock>>

\* the commit of save_stage2_result: the reset rows, the inserted row and
\* the vacancy update become visible together
save_stage2_commit(w, v) ==
    /\ analyses' = {IF a.id \in snap[w] THEN [a EXCEPT !.is_current = FALSE] ELSE a : a \in analyses}
                      \cup {[id |-> ins[w], vacancy_id |-> v, is_current |-> TRUE,
                              trust_score |-> res[w].trust_score,
                              error_message |-> res[w].error_message,
                              tokens_used |-> res[w].tokens_used]}
    /\ status' = [status EXCEPT ![v] = "analyzed"]
    /\ last_analysis_id' = [last_analysis_id EXCEPT ![v] = ins[w]]
    /\ UNCHANGED <<description, embedding, attributes, nextId, claimLock>>

\* ------------------------------------------------------------------------
\* Crawler: main.run_scrapers, DetailCrawler.crawl
\* ------------------------------------------------------------------------

Scrape(S) ==
    /\ cbatch = {}
    /\ batch_upsert(S)
    /\ UNCHANGED <<workerVars, stageVars>>
    /\ UNCHANGED <<stopVars, tableVars, routerVars, retryVars, analyzerVars>>

CrawlStart ==
    /\ cbatch = {}
    /\ \E B \in get_vacancies_by_status("new", CRAWL_LIMIT) :
          /\ B # {}
          /\ cbatch' = B
    /\ UNCHANGED <<dbVars, workerVars, vbatch>>
    /\ UNCHANGED <<stopVars, tableVars, routerVars, retryVars, analyzerVars>>

CrawlOne(v, A) ==
    /\ v \in cbatch
    /\ ~UpdateBlocked(0, v)
    /\ \E attrs \in A : update_vacancy_details(v, attrs)
    /\ cbatch' = cbatch \ {v}
    /\ UNCHANGED <<workerVars, vbatch>>
    /\ UNCHANGED <<stopVars, tableVars, routerVars, retryVars, analyzerVars>>

\* no html, or an exception inside the iteration: the vacancy is passed over
CrawlSkip(v) ==
    /\ v \in cbatch
    /\ cbatch' = cbatch \ {v}
    /\ UNCHANGED <<dbVars, workerVars, vbatch>>
    /\ UNCHANGED <<stopVars, tableVars, routerVars, retryVars, analyzerVars>>

\* ------------------------------------------------------------------------
\* Vectorizer: run_vectorizer.main
\* ------------------------------------------------------------------------

VectorizerPoll(z) ==
    /\ vbatch[z] = {}
    /\ \E B \in get_vacancies_by_status("extracted", VECTORIZER_LIMIT) :
          /\ B # {}
          /\ vbatch' = [vbatch EXCEPT ![z] = B]
    /\ UNCHANGED <<dbVars, workerVars, cbatch>>
    /\ UNCHANGED <<stopVars, tableVars, routerVars, retryVars, analyzerVars>>

VectorizerWrite(z) ==
    /\ vbatch[z] # {}
    /\ \A v \in vbatch[z] : ~UpdateBlocked(0, v)
    /\ batch_update_vectors(vbatch[z], "vectorized")
    /\ vbatch' = [vbatch EXCEPT ![z] = {}]
    /\ UNCHANGED <<workerVars, cbatch>>
    /\ UNCHANGED <<stopVars, tableVars, routerVars, retryVars, analyzerVars>>

\* an exception in the loop body: nothing is written
VectorizerFail(z) ==
    /\ vbatch[z] # {}
    /\ vbatch' = [vbatch EXCEPT ![z] = {}]
    /\ UNCHANGED <<dbVars, workerVars, cbatch>>
    /\ UNCHANGED <<stopVars, tableVars, routerVars, retryVars, analyzerVars>>

\* ------------------------------------------------------------------------
\* LLM worker: run_llm_requests.main and process_vacancy
\* ------------------------------------------------------------------------

\* the loop goes round whatever the flag says
PollBegin_WhileTrue(w) ==
    /\ wpc[w] = "poll"
    /\ wpc' = [wpc EXCEPT ![w] = "query"]
    /\ UNCHANGED <<dbVars, batch, cur, snap, ins, s1_tokens, s2_tokens, res, exc,
                   stage1_cost, stageVars>>
    /\ UNCHANGED <<stopVars, tableVars, routerVars, retryVars, analyzerVars>>

\* "while not stop_event.is_set()": the claim session opens and the claim
\* query is sent
PollBegin(w) ==
    /\ wpc[w] = "poll"
    /\ ~stop_event[w]
    /\ wpc' = [wpc EXCEPT ![w] = "query"]
    /\ UNCHANGED <<dbVars, batch, cur, snap, ins, s1_tokens, s2_tokens, res, exc,
                   stage1_cost, stageVars>>
    /\ UNCHANGED <<stopVars, tableVars, routerVars, retryVars, analyzerVars>>

\* the claim query inside the short claim session
Poll(w) ==
    /\ wpc[w] = "query"
    /\ \E B \in get_vacancies_for_llm_processing(LLM_BATCH_LIMIT) :
          /\ batch' = [batch EXCEPT ![w] = B]
          /\ claimLock' = [v \in Ids |-> IF v \in B THEN w ELSE claimLock[v]]
    /\ wpc' = [wpc EXCEPT ![w] = "claimed"]
    /\ UNCHANGED <<status, description, embedding, attributes, last_analysis_id,
                   analyses, nextId, cur, snap, ins, s1_tokens, s2_tokens, res, exc,
                   stage1_cost, stageVars>>
    /\ UNCHANGED <<stopVars, tableVars, routerVars, retryVars, analyzerVars>>

\* leaving "async with local_async_session()": the session closes, its
\* transaction is rolled back and the row locks go
ReleaseClaim(w) ==
    /\ wpc[w] = "claimed"
    /\ claimLock' = [v \in Ids |-> IF claimLock[v] = w THEN 0 ELSE claimLock[v]]
    /\ wpc' = [wpc EXCEPT ![w] = IF batch[w] = {} THEN "idle" ELSE "next"]
    /\ UNCHANGED <<status, description, embedding, attributes, last_analysis_id,
                   analyses, nextId, batch, cur, snap, ins, s1_tokens, s2_tokens, res, exc,
                   stage1_cost, stageVars>>
    /\ UNCHANGED <<stopVars, tableVars, routerVars, retryVars, analyzerVars>>

\* asyncio.wait_for(stop_event.wait(), timeout=30) ends with TimeoutError,
\* which is passed over; "continue"
IdleWake(w) ==
    /\ wpc[w] = "idle"
    /\ wpc' = [wpc EXCEPT ![w] = "poll"]
    /\ UNCHANGED <<dbVars, batch, cur, snap, ins, s1_tokens, s2_tokens, res, exc,
                   stage1_cost, stageVars>>
    /\ UNCHANGED <<stopVars, tableVars, routerVars, retryVars, analyzerVars>>

\* "await asyncio.sleep(30)": a set flag does not end the wait
IdleInterrupted_PlainSleep(w) ==
    /\ wpc[w] = "idle"
    /\ stop_event[w]
    /\ FALSE
    /\ wpc' = [wpc EXCEPT ![w] = "poll"]
    /\ UNCHANGED <<dbVars, batch, cur, snap, ins, s1_tokens, s2_tokens, res, exc,
                   stage1_cost, stageVars>>
    /\ UNCHANGED <<stopVars, tableVars, routerVars, retryVars, analyzerVars>>

\* the awaited stop_event.wait() returns because the flag is set: wait_for
\* ends before its timeout; "continue"
IdleInterrupted(w) ==
    /\ wpc[w] = "idle"
    /\ stop_event[w]
    /\ wpc' = [wpc EXCEPT ![w] = "poll"]
    /\ UNCHANGED <<dbVars, batch, cur, snap, ins, s1_tokens, s2_tokens, res, exc,
                   stage1_cost, stageVars>>
    /\ UNCHANGED <<stopVars, tableVars, routerVars, retryVars, analyzerVars>>

\* the for loop goes on to the next id whatever the flag says
StartVacancy_IgnoresStop(w, v) ==
    /\ wpc[w] = "next"
    /\ v \in batch[w]
    /\ batch' = [batch EXCEPT ![w] = @ \ {v}]
    /\ cur' = [cur EXCEPT ![w] = v]
    /\ s1_tokens' = [s1_tokens EXCEPT ![w] = 0]
    /\ s2_tokens' = [s2_tokens EXCEPT ![w] = 0]
    /\ wpc' = [wpc EXCEPT ![w] = IF status[v] = "vectorized" THEN "stage1" ELSE "stage2"]
    /\ UNCHANGED <<dbVars, snap, ins, res, exc, stage1_cost, stageVars>>
    /\ UNCHANGED <<stopVars, tableVars, routerVars, retryVars, analyzerVars>>

\* the for loop's "if stop_event.is_set(): break" passed; process_vacancy:
\* session.get, then the branch on v.status
StartVacancy(w, v) ==
    /\ wpc[w] = "next"
    /\ ~stop_event[w]
    /\ v \in batch[w]
    /\ batch' = [batch EXCEPT ![w] = @ \ {v}]
    /\ cur' = [cur EXCEPT ![w] = v]
    /\ s1_tokens' = [s1_tokens EXCEPT ![w] = 0]
    /\ s2_tokens' = [s2_tokens EXCEPT ![w] = 0]
    /\ wpc' = [wpc EXCEPT ![w] = IF status[v] = "vectorized" THEN "stage1" ELSE "stage2"]
    /\ UNCHANGED <<dbVars, snap, ins, res, exc, stage1_cost, stageVars>>
    /\ UNCHANGED <<stopVars, tableVars, routerVars, retryVars, analyzerVars>>

\* session.get raises: the except clause of process_vacancy logs it
LoadFail(w, v, e) ==
    /\ wpc[w] = "next"
    /\ ~stop_event[w]
    /\ v \in batch[w]
    /\ e \in DbErrors
    /\ batch' = [batch EXCEPT ![w] = @ \ {v}]
    /\ cur' = [cur EXCEPT ![w] = v]
    /\ exc' = [exc EXCEPT ![w] = [cls |-> e, at |-> "load"]]
    /\ wpc' = [wpc EXCEPT ![w] = "pace"]
    /\ UNCHANGED <<dbVars, snap, ins, s1_tokens, s2_tokens, res, stage1_cost, stageVars>>
    /\ UNCHANGED <<stopVars, tableVars, routerVars, retryVars, analyzerVars>>

\* analyze_stage1 returns (s1_data, s1_tokens)
Stage1Return(w, t) ==
    /\ wpc[w] = "stage1"
    /\ s1_tokens' = [s1_tokens EXCEPT ![w] = t]
    /\ wpc' = [wpc EXCEPT ![w] = "save1"]
    /\ UNCHANGED <<dbVars, batch, cur, snap, ins, s2_tokens, res, exc, stage1_cost, stageVars>>
    /\ UNCHANGED <<stopVars, tableVars, routerVars, retryVars, analyzerVars>>

Save1(w) ==
    /\ wpc[w] = "save1"
    /\ ~UpdateBlocked(w, cur[w])
    /\ save_stage1_result(cur[w])
    /\ stage1_cost' = [stage1_cost EXCEPT ![cur[w]] = s1_tokens[w]]
    /\ wpc' = [wpc EXCEPT ![w] = "stage2"]
    /\ UNCHANGED <<batch, cur, snap, ins, s1_tokens, s2_tokens, res, exc, stageVars>>
    /\ UNCHANGED <<stopVars, tableVars, routerVars, retryVars, analyzerVars>>

\* the judgment passes the schema of VacancyJudgment
ValidJudgment(score) == score >= MIN_TRUST_SCORE /\ score <= MAX_TRUST_SCORE

\* "result.tokens_used = s1_tokens + s2_tokens"
tokens_used(s1, s2) == s1 + s2

\* analyze_stage2 returns (result, s2_tokens) with the backend's judgment;
\* tokens_used is set; save_stage2_result opens the savepoint and issues
\* the is_current reset, whose snapshot is the committed rows
Stage2Return(w, score, t) ==
    /\ wpc[w] = "stage2"
    /\ ValidJudgment(score)
    /\ s2_tokens' = [s2_tokens EXCEPT ![w] = t]
    /\ res' = [res EXCEPT ![w] = [trust_score |-> score, error_message |-> FALSE,
                                  tokens_used |-> tokens_used(s1_tokens[w], t)]]
    /\ snap' = [snap EXCEPT ![w] = {a.id : a \in {b \in analyses : b.vacancy_id = cur[w]}}]
    /\ wpc' = [wpc EXCEPT ![w] = "s2_reset"]
    /\ UNCHANGED <<dbVars, batch, cur, ins, s1_tokens, exc, stage1_cost, stageVars>>
    /\ UNCHANGED <<stopVars, tableVars, routerVars, retryVars, analyzerVars>>

\* the reset UPDATE gets the row locks of the rows it saw
S2Reset(w) ==
    /\ wpc[w] = "s2_reset"
    /\ \A a \in snap[w] : \A o \in Workers \ {w} : ~HoldsAnalysisRow(o, a)
    /\ wpc' = [wpc EXCEPT ![w] = "s2_insert"]
    /\ UNCHANGED <<dbVars, batch, cur, snap, ins, s1_tokens, s2_tokens, res, exc,
                   stage1_cost, stageVars>>
    /\ UNCHANGED <<stopVars, tableVars, routerVars, retryVars, analyzerVars>>

\* session.add + flush: the INSERT takes the next id of the sequence
S2Insert(w) ==
    /\ wpc[w] = "s2_insert"
    /\ nextId <= MaxAnalyses
    /\ claimLock[cur[w]] \in {0, w}
    /\ ins' = [ins EXCEPT ![w] = nextId]
    /\ nextId' = nextId + 1
    /\ wpc' = [wpc EXCEPT ![w] = "s2_update"]
    /\ UNCHANGED <<status, description, embedding, attributes, last_analysis_id,
                   analyses, claimLock, batch, cur, snap, s1_tokens, s2_tokens, res, exc,
                   stage1_cost, stageVars>>
    /\ UNCHANGED <<stopVars, tableVars, routerVars, retryVars, analyzerVars>>

\* UPDATE vacancies SET status, last_analysis_id inside the savepoint
S2Update(w) ==
    /\ wpc[w] = "s2_update"
    /\ ~UpdateBlocked(w, cur[w])
    /\ wpc' = [wpc EXCEPT ![w] = "s2_commit"]
    /\ UNCHANGED <<dbVars, batch, cur, snap, ins, s1_tokens, s2_tokens, res, exc,
                   stage1_cost, stageVars>>
    /\ UNCHANGED <<stopVars, tableVars, routerVars, retryVars, analyzerVars>>

S2Commit(w) ==
    /\ wpc[w] = "s2_commit"
    /\ save_stage2_commit(w, cur[w])
    /\ snap' = [snap EXCEPT ![w] = {}]
    /\ ins' = [ins EXCEPT ![w] = 0]
    /\ wpc' = [wpc EXCEPT ![w] = "notify"]
    /\ UNCHANGED <<batch, cur, s1_tokens, s2_tokens, res, exc, stage1_cost, stageVars>>
    /\ UNCHANGED <<stopVars, tableVars, routerVars, retryVars, analyzerVars>>

\* the notifier's failure undoes the stored judgment
Notify_RollsBack(w) ==
    /\ wpc[w] = "notify"
    /\ wpc' = [wpc EXCEPT ![w] = "pace"]
    /\ status' = [status EXCEPT ![cur[w]] = STRUCTURED]
    /\ UNCHANGED <<description, embedding, attributes, last_analysis_id, analyses, nextId,
                   claimLock, batch, cur, snap, ins, s1_tokens, s2_tokens, res, exc,
                   stage1_cost, stageVars>>
    /\ UNCHANGED <<stopVars, tableVars, routerVars, retryVars, analyzerVars>>

\* notify_analysis_complete returns (sent, filtered out or failed inside)
Notify(w) ==
    /\ wpc[w] = "notify"
    /\ wpc' = [wpc EXCEPT ![w] = "pace"]
    /\ UNCHANGED <<dbVars, batch, cur, snap, ins, s1_tokens, s2_tokens, res, exc,
                   stage1_cost, stageVars>>
    /\ UNCHANGED <<stopVars, tableVars, routerVars, retryVars, analyzerVars>>

\* the exceptions each awaited call of the try block can raise
Raises(pc) ==
    IF pc \in {"stage1", "stage2"} THEN StageErrors
    ELSE IF pc = "notify" THEN {"NotifierError"}
    ELSE DbErrors

\* a failed Stage 1 is logged and Stage 2 goes ahead
ProcessFail_Continues(w, e) ==
    /\ wpc[w] \in {"stage1", "save1", "stage2", "s2_reset", "s2_insert",
                   "s2_update", "s2_commit", "notify"}
    /\ e \in Raises(wpc[w])
    /\ snap' = [snap EXCEPT ![w] = {}]
    /\ ins' = [ins EXCEPT ![w] = 0]
    /\ exc' = [exc EXCEPT ![w] = [cls |-> e, at |-> wpc[w]]]
    /\ wpc' = [wpc EXCEPT ![w] = IF wpc[w] \in {"stage1", "save1"} THEN "stage2" ELSE "pace"]
    /\ UNCHANGED <<dbVars, batch, cur, s1_tokens, s2_tokens, res, stage1_cost, stageVars>>
    /\ UNCHANGED <<stopVars, tableVars, routerVars, retryVars, analyzerVars>>

\* the exception leaves process_vacancy and the for loop
ProcessFail_AbortsBatch(w, e) ==
    /\ wpc[w] \in {"stage1", "save1", "stage2", "s2_reset", "s2_insert",
                   "s2_update", "s2_commit", "notify"}
    /\ e \in Raises(wpc[w])
    /\ snap' = [snap EXCEPT ![w] = {}]
    /\ ins' = [ins EXCEPT ![w] = 0]
    /\ exc' = [exc EXCEPT ![w] = [cls |-> e, at |-> wpc[w]]]
    /\ batch' = [batch EXCEPT ![w] = {}]
    /\ wpc' = [wpc EXCEPT ![w] = "pace"]
    /\ UNCHANGED <<dbVars, cur, s1_tokens, s2_tokens, res, stage1_cost, stageVars>>
    /\ UNCHANGED <<stopVars, tableVars, routerVars, retryVars, analyzerVars>>

\* "except Exception as e": an exception anywhere inside the try of
\* process_vacancy is logged, the session closes and an open transaction
\* is rolled back
ProcessFail(w, e) ==
    /\ wpc[w] \in {"stage1", "save1", "stage2", "s2_reset", "s2_insert",
                   "s2_update", "s2_commit", "notify"}
    /\ e \in Raises(wpc[w])
    /\ snap' = [snap EXCEPT ![w] = {}]
    /\ ins' = [ins EXCEPT ![w] = 0]
    /\ exc' = [exc EXCEPT ![w] = [cls |-> e, at |-> wpc[w]]]
    /\ wpc' = [wpc EXCEPT ![w] = "pace"]
    /\ UNCHANGED <<dbVars, batch, cur, s1_tokens, s2_tokens, res, stage1_cost, stageVars>>
    /\ UNCHANGED <<stopVars, tableVars, routerVars, retryVars, analyzerVars>>

\* process_vacancy is over and asyncio.sleep(30) ends; the for loop goes on
\* or the while loop polls
Pace(w) ==
    /\ wpc[w] = "pace"
    /\ cur' = [cur EXCEPT ![w] = 0]
    /\ s1_tokens' = [s1_tokens EXCEPT ![w] = 0]
    /\ s2_tokens' = [s2_tokens EXCEPT ![w] = 0]
    /\ res' = [res EXCEPT ![w] = NoResult]
    /\ exc' = [exc EXCEPT ![w] = NoException]
    /\ wpc' = [wpc EXCEPT ![w] = IF batch[w] = {} THEN "poll" ELSE "next"]
    /\ UNCHANGED <<dbVars, batch, snap, ins, stage1_cost, stageVars>>
    /\ UNCHANGED <<stopVars, tableVars, routerVars, retryVars, analyzerVars>>

\* the places where main or process_vacancy is suspended at an await
Awaiting == {"query", "claimed", "idle", "stage1", "save1", "stage2", "s2_reset",
             "s2_insert", "s2_update", "s2_commit", "notify", "pace", "dispose"}

\* SIGINT or SIGTERM: the event loop runs the handler registered by
\* register_signals, which it can only do while the coroutine is suspended
Signal(w) ==
    /\ wpc[w] \in Awaiting
    /\ ~stop_event[w]
    /\ stop_event' = [stop_event EXCEPT ![w] = TRUE]
    /\ UNCHANGED <<dbVars, workerVars, stageVars>>
    /\ UNCHANGED <<tableVars, routerVars, retryVars, analyzerVars>>

\* "if stop_event.is_set(): break": the rest of vacancy_ids is dropped
Break(w) ==
    /\ wpc[w] = "next"
    /\ stop_event[w]
    /\ batch' = [batch EXCEPT ![w] = {}]
    /\ wpc' = [wpc EXCEPT ![w] = "poll"]
    /\ UNCHANGED <<dbVars, cur, snap, ins, s1_tokens, s2_tokens, res, exc, stage1_cost,
                   stageVars>>
    /\ UNCHANGED <<stopVars, tableVars, routerVars, retryVars, analyzerVars>>

\* the while condition is false: the finally clause awaits engine.dispose()
LoopExit(w) ==
    /\ wpc[w] = "poll"
    /\ stop_event[w]
    /\ wpc' = [wpc EXCEPT ![w] = "dispose"]
    /\ UNCHANGED <<dbVars, batch, cur, snap, ins, s1_tokens, s2_tokens, res, exc,
                   stage1_cost, stageVars>>
    /\ UNCHANGED <<stopVars, tableVars, routerVars, retryVars, analyzerVars>>

\* engine.dispose() returns and main is over
Dispose(w) ==
    /\ wpc[w] = "dispose"
    /\ wpc' = [wpc EXCEPT ![w] = "stopped"]
    /\ UNCHANGED <<dbVars, batch, cur, snap, ins, s1_tokens, s2_tokens, res, exc,
                   stage1_cost, stageVars>>
    /\ UNCHANGED <<stopVars, tableVars, routerVars, retryVars, analyzerVars>>

\* the steps of a worker that only a set flag enables
ShutdownStep(w) ==
    \/ IdleInterrupted(w)
    \/ Break(w)
    \/ LoopExit(w)
    \/ Dispose(w)

\* the crawler process whose detail pages carry the attributes of A
CrawlerRun(A) ==
    \/ \E S \in SUBSET Ids \ {{}} : Scrape(S)
    \/ CrawlStart
    \/ \E v \in Ids : CrawlOne(v, A)
    \/ \E v \in Ids : CrawlSkip(v)

CrawlerStep == CrawlerRun(SUBSET DetailAttributeKeys)

\* the crawler whose DTOs carry no attributes, as the parsers build them
CrawlerStepFixed == CrawlerRun({{}})

VectorizerStep(z) ==
    \/ VectorizerPoll(z)
    \/ VectorizerWrite(z)
    \/ VectorizerFail(z)

\* one worker process whose backend calls report token counts of T and
\* judgments with the scores of J
WorkerRun(w, T, J) ==
    \/ PollBegin(w)
    \/ Poll(w)
    \/ ReleaseClaim(w)
    \/ IdleWake(w)
    \/ \E v \in Ids : StartVacancy(w, v)
    \/ \E v \in Ids : \E e \in DbErrors : LoadFail(w, v, e)
    \/ \E t \in T : Stage1Return(w, t)
    \/ Save1(w)
    \/ \E score \in J : \E t \in T : Stage2Return(w, score, t)
    \/ S2Reset(w)
    \/ S2Insert(w)
    \/ S2Update(w)
    \/ S2Commit(w)
    \/ Notify(w)
    \/ \E e \in StageErrors \cup DbErrors \cup {"NotifierError"} : ProcessFail(w, e)
    \/ Pace(w)

WorkerStep(w) == WorkerRun(w, TokenCounts, RawScores)

\* the worker with one answer for every backend call
WorkerStepFixed(w) == WorkerRun(w, {0}, {MAX_TRUST_SCORE})

\* one crawler, one vectorizer, NumWorkers LLM worker processes
Next == CrawlerStep \/ VectorizerStep(1) \/ \E w \in Workers : WorkerStepFixed(w)

Spec == Init /\ [][Next]_vars

\* one crawler, one vectorizer, one LLM worker process
NextSingle == CrawlerStep \/ VectorizerStep(1) \/ WorkerStep(1)

SpecSingle == Init /\ [][NextSingle]_vars

\* one process of each kind, one answer for every backend call and no
\* attributes in the crawler's DTOs
NextLoop == CrawlerStepFixed \/ VectorizerStep(1) \/ WorkerStepFixed(1)

SpecLoop == Init /\ [][NextLoop]_vars

\* one crawler, NumVectorizers vectorizer processes, one LLM worker process
NextStages == CrawlerStep \/ (\E z \in Vectorizers : VectorizerStep(z)) \/ WorkerStepFixed(1)

SpecStages == Init /\ [][NextStages]_vars

\* one process of each kind, one answer for every backend call, and a
\* shutdown signal to the worker at any of its awaits; every awaited call
\* and sleep of the worker ends
NextShutdown ==
    \/ CrawlerStepFixed
    \/ VectorizerStep(1)
    \/ WorkerStepFixed(1)
    \/ ShutdownStep(1)
    \/ Signal(1)

SpecShutdown ==
    Init /\ [][NextShutdown]_vars /\ WF_vars(WorkerStepFixed(1) \/ ShutdownStep(1))

\* the store once record 1 has been scraped, crawled and vectorized
InitVectorized ==
    /\ status = [v \in Ids |-> IF v = 1 THEN "vectorized" ELSE ABSENT]
    /\ description = [v \in Ids |-> v = 1]
    /\ embedding = [v \in Ids |-> v = 1]
    /\ attributes = [v \in Ids |-> {}]
    /\ last_analysis_id = [v \in Ids |-> 0]
    /\ analyses = {}
    /\ nextId = 1
    /\ claimLock = [v \in Ids |-> 0]

\* NumWorkers LLM worker processes over that store, crawler and vectorizer
\* at rest
NextAppend == \E w \in Workers : WorkerStepFixed(w)

InitAppend ==
    /\ InitVectorized /\ InitWorkers /\ InitStages /\ InitTable /\ InitRouter /\ InitRetry
    /\ InitAnalyzer

SpecAppend == InitAppend /\ [][NextAppend]_vars

\* the same processes and signal where only the steps a set flag enables
\* are sure to happen: no timer is assumed to expire and no awaited call
\* to return
SpecIdle == Init /\ [][NextShutdown]_vars /\ WF_vars(ShutdownStep(1))

\* ------------------------------------------------------------------------
\* The vacancies table row by row: identity hashes and the attributes column
\* ------------------------------------------------------------------------

Hashes == 1..NumHashes
Facts == 1..NumFacts

\* a JSONB object: a function from its keys to the set of elements of each
\* value (a list's elements; one element or none for a nullable string)
JsonObjects(Keys) == UNION {[K -> SUBSET Facts] : K \in SUBSET Keys}
EmptyObject == [k \in {} |-> {}]

\* what a scraper's DTO can carry in attributes
DetailObjects == JsonObjects(DetailAttributeKeys)

\* attributes_update of save_stage1_result: always the four keys; the three
\* lists may be empty and domain may be null
Stage1Outputs == [Stage1AttributeKeys -> SUBSET Facts]

\* the Stage-1 outputs that differ in tech_stack and domain only
Stage1Samples == {d \in Stage1Outputs : d["benefits"] = {} /\ d["red_flag_keywords"] = {}}

\* the lists of identity hashes a scraper batch can carry, repeats included
Batches == UNION {[1..n -> Hashes] : n \in 1..MaxBatch}

\* PostgreSQL "a || b" on two JSONB objects: the keys of both, the value of
\* b wherever b has the key
concat(a, b) == [k \in DOMAIN a \cup DOMAIN b |-> IF k \in DOMAIN b THEN b[k] ELSE a[k]]

\* the row a VALUES entry becomes: an id from the sequence, status NEW,
\* the DTO's attributes
NewRow(id, h) ==
    [id |-> id, identity_hash |-> h, status |-> "new", attributes |-> EmptyObject]

\* the VALUES entries that meet no stored row and no earlier entry with
\* their identity hash
Fresh(tbl, values) ==
    {i \in 1..Len(values) :
        /\ \A r \in tbl : r.identity_hash # values[i]
        /\ \A j \in 1..(i - 1) : values[j] # values[i]}

\* the rows the statement inserts, numbered in the order of VALUES
Inserted(tbl, values) ==
    LET fresh == Fresh(tbl, values) IN
    {NewRow(Cardinality(tbl) + Cardinality({j \in fresh : j <= i}), values[i]) : i \in fresh}

\* INSERT ... ON CONFLICT (identity_hash) DO UPDATE SET status = excluded.status
on_conflict_do_update(tbl, values) ==
    {IF \E i \in 1..Len(values) : values[i] = r.identity_hash
        THEN [r EXCEPT !.status = "new"] ELSE r : r \in tbl}
        \cup Inserted(tbl, values)

\* INSERT ... VALUES (...) ON CONFLICT (identity_hash) DO NOTHING: a VALUES
\* entry whose hash is stored, or was inserted by an earlier entry of the
\* same statement, is passed over
on_conflict_do_nothing(tbl, values) == tbl \cup Inserted(tbl, values)

\* result.rowcount of the INSERT: the rows it inserted
rowcount(before, after) == Cardinality(after \ before)

\* the row with a given id
Row(tbl, id) == CHOOSE r \in tbl : r.id = id

\* UPDATE vacancies SET status = :st, attributes = :attrs WHERE id = :id
UpdateRow(tbl, id, st, attrs) ==
    {IF r.id = id THEN [r EXCEPT !.status = st, !.attributes = attrs] ELSE r : r \in tbl}

\* VacancyRepository.batch_upsert
BatchUpsert(values) ==
    /\ table' = on_conflict_do_nothing(table, values)
    /\ returned' = rowcount(table, table')
    /\ last_op' = [name |-> "batch_upsert", arg |-> values]
    /\ UNCHANGED <<pipelineVars, routerVars, retryVars, analyzerVars>>

\* VacancyRepository.update_vacancy_details for a row the crawler read as NEW
RowDetails(id, dto) ==
    /\ \E r \in table : r.id = id /\ r.status = "new"
    /\ table' = UpdateRow(table, id, "extracted", dto)
    /\ last_op' = [name |-> "update_vacancy_details", arg |-> <<id>>]
    /\ UNCHANGED returned
    /\ UNCHANGED <<pipelineVars, routerVars, retryVars, analyzerVars>>

\* VacancyRepository.batch_update_vectors for a row read as EXTRACTED
RowVectors(id) ==
    /\ \E r \in table : r.id = id /\ r.status = "extracted"
    /\ table' = UpdateRow(table, id, "vectorized", Row(table, id).attributes)
    /\ last_op' = [name |-> "batch_update_vectors", arg |-> <<id>>]
    /\ UNCHANGED returned
    /\ UNCHANGED <<pipelineVars, routerVars, retryVars, analyzerVars>>

\* VacancyRepository.save_stage1_result, called by a worker that read the
\* row as VECTORIZED; the UPDATE has no condition on the status, and by the
\* time it runs another worker that claimed the same row may have saved
\* Stage 1 or Stage 2
RowStage1(id, data) ==
    /\ \E r \in table : r.id = id /\ r.status \in {"vectorized", STRUCTURED, "analyzed"}
    /\ table' = UpdateRow(table, id, STRUCTURED, concat(Row(table, id).attributes, data))
    /\ last_op' = [name |-> "save_stage1_result", arg |-> <<id>>]
    /\ UNCHANGED returned
    /\ UNCHANGED <<pipelineVars, routerVars, retryVars, analyzerVars>>

\* VacancyRepository.save_stage2_result: the vacancy row's part
RowStage2(id) ==
    /\ \E r \in table : r.id = id /\ r.status = STRUCTURED
    /\ table' = UpdateRow(table, id, "analyzed", Row(table, id).attributes)
    /\ last_op' = [name |-> "save_stage2_result", arg |-> <<id>>]
    /\ UNCHANGED returned
    /\ UNCHANGED <<pipelineVars, routerVars, retryVars, analyzerVars>>

\* the repository calls on the table, with the DTO attributes of A and the
\* Stage-1 outputs of D
TableRun(A, D) ==
    \/ \E values \in Batches : BatchUpsert(values)
    \/ \E id \in Hashes : \E dto \in A : RowDetails(id, dto)
    \/ \E id \in Hashes : RowVectors(id)
    \/ \E id \in Hashes : \E data \in D : RowStage1(id, data)
    \/ \E id \in Hashes : RowStage2(id)

\* ingestion and the status column: every DTO with empty attributes, every
\* Stage-1 output with empty lists
NextUpsert == TableRun({EmptyObject}, {[k \in Stage1AttributeKeys |-> {}]})

SpecUpsert == Init /\ [][NextUpsert]_vars

\* the attributes column under every DTO and the sample Stage-1 outputs
NextMerge == TableRun(DetailObjects, Stage1Samples)

SpecMerge == Init /\ [][NextMerge]_vars

\* ------------------------------------------------------------------------
\* Backend adapters: BaseProvider, GeminiProvider, OpenAIProvider
\* ------------------------------------------------------------------------

\* what an adapter's analyze can end with; ContentFilterError is the other
\* ProviderError subclass of brain/exceptions.py
Outcomes == {"ok", "RateLimitError", "ProviderError", "ContentFilterError", "ValidationError"}

\* healthy again from the last tick of the cooldown
is_healthy_AtCooldown(p) == (now - last_failure_time[p]) >= CooldownTicks

is_healthy(p) == (now - last_failure_time[p]) > CooldownTicks

mark_failed(lft, p) == [lft EXCEPT ![p] = now]

\* the adapter's own handling before it raises: a rate-limit signal marks
\* the adapter failed, nothing else touches its health
provider_analyze(p, outcome) ==
    IF outcome = "RateLimitError" THEN mark_failed(last_failure_time, p) ELSE last_failure_time

\* ------------------------------------------------------------------------
\* SmartChainProvider.analyze
\* ------------------------------------------------------------------------

\* the health check ignored
RouterSkips_Never(p) == FALSE

\* "if not provider.is_healthy(): continue"
RouterSkips(p) == ~is_healthy(p)

\* "except AnalysisError"
Caught_AnyAnalysisError(outcome) == outcome \in Outcomes \ {"ok"}

\* the two classes matched by exact type
Caught_ExactTypes(outcome) == outcome \in {"RateLimitError", "ProviderError"}

\* "except RateLimitError" alone
Caught_RateLimitOnly(outcome) == outcome = "RateLimitError"

\* "except (RateLimitError, ProviderError)": the classes and their subclasses
Caught(outcome) == outcome \in {"RateLimitError", "ProviderError", "ContentFilterError"}

\* the loop falls through without raising
ExhaustedResult_None == "none"

\* the last adapter's error re-raised
ExhaustedResult_LastError == "ProviderError"

\* the raise after the loop
ExhaustedResult == "AnalysisError"

\* the time of the adapter's latest mark_failed call, by itself or by the
\* router; empty while it has never been marked
FailedAt(p, outcome) ==
    IF outcome = "RateLimitError" \/ Caught(outcome)
        THEN [failed_at EXCEPT ![p] = {now}]
        ELSE failed_at

\* the name of the first adapter in the list once any adapter has served
provider_name_First == IF last_used # 0 THEN 1 ELSE 0

\* "chain -> <name of the last used adapter>", 0 for "chain -> pending";
\* an adapter is named by its place in the list
provider_name == IF last_used # 0 THEN last_used ELSE 0

\* the last used adapter's model, 0 for "multi-model"
model_name == IF last_used # 0 THEN last_used ELSE 0

\* the request starts after the adapter that served the previous one
RouterStart_RoundRobin ==
    /\ rpc = "idle"
    /\ rpc' = "loop"
    /\ idx' = IF last_used = 0 THEN 1 ELSE (last_used % NumProviders) + 1
    /\ result' = "none"
    /\ startHealthy' = {p \in Providers : is_healthy(p)}
    /\ UNCHANGED <<now, last_failure_time, last_used, checks, calls, marks, ret, lftBefore,
                   healthyAtCheck, ptokens, rtokens, failed_at>>
    /\ UNCHANGED <<pipelineVars, tableVars, retryVars, analyzerVars>>

\* "for provider in self.providers": the loop starts at the head of the list
RouterStart ==
    /\ rpc = "idle"
    /\ rpc' = "loop"
    /\ idx' = 1
    /\ result' = "none"
    /\ startHealthy' = {p \in Providers : is_healthy(p)}
    /\ UNCHANGED <<now, last_failure_time, last_used, checks, calls, marks, ret, lftBefore,
                   healthyAtCheck, ptokens, rtokens, failed_at>>
    /\ UNCHANGED <<pipelineVars, tableVars, retryVars, analyzerVars>>

\* one turn of the for loop up to the await: the health check, then the
\* skip or the invocation
RouterCheck ==
    /\ rpc = "loop"
    /\ idx <= NumProviders
    /\ checks' = [checks EXCEPT ![idx] = @ + 1]
    /\ healthyAtCheck' = IF is_healthy(idx) THEN healthyAtCheck \cup {idx} ELSE healthyAtCheck
    /\ IF RouterSkips(idx)
         THEN /\ idx' = idx + 1
              /\ UNCHANGED <<rpc, calls, lftBefore>>
         ELSE /\ rpc' = "call"
              /\ calls' = [calls EXCEPT ![idx] = @ + 1]
              /\ lftBefore' = last_failure_time[idx]
              /\ UNCHANGED idx
    /\ UNCHANGED <<now, last_failure_time, last_used, result, startHealthy, marks, ret,
                   ptokens, rtokens, failed_at>>
    /\ UNCHANGED <<pipelineVars, tableVars, retryVars, analyzerVars>>

\* the adapter recorded as last used when it is invoked, whatever its call
\* ends with
ProviderReturn_RemembersTried(outcome, tokens) ==
    /\ rpc = "call"
    /\ ret' = [ret EXCEPT ![idx] = outcome]
    /\ last_used' = idx
    /\ IF outcome = "ok"
         THEN /\ result' = "ok"
              /\ ptokens' = tokens
              /\ rtokens' = tokens
              /\ rpc' = "done"
              /\ last_failure_time' = provider_analyze(idx, outcome)
              /\ UNCHANGED <<idx, marks>>
         ELSE IF Caught(outcome)
         THEN /\ last_failure_time' = mark_failed(provider_analyze(idx, outcome), idx)
              /\ marks' = [marks EXCEPT ![idx] = @ + 1]
              /\ idx' = idx + 1
              /\ rpc' = "loop"
              /\ UNCHANGED <<result, ptokens, rtokens>>
         ELSE /\ last_failure_time' = provider_analyze(idx, outcome)
              /\ result' = outcome
              /\ rpc' = "done"
              /\ UNCHANGED <<idx, marks, ptokens, rtokens>>
    /\ failed_at' = FailedAt(idx, outcome)
    /\ UNCHANGED <<now, startHealthy, checks, calls, lftBefore, healthyAtCheck>>
    /\ UNCHANGED <<pipelineVars, tableVars, retryVars, analyzerVars>>

\* the awaited provider.analyze ends: with (result, tokens), or raising
ProviderReturn(outcome, tokens) ==
    /\ rpc = "call"
    /\ ret' = [ret EXCEPT ![idx] = outcome]
    /\ IF outcome = "ok"
         THEN /\ last_used' = idx
              /\ result' = "ok"
              /\ ptokens' = tokens
              /\ rtokens' = tokens
              /\ rpc' = "done"
              /\ last_failure_time' = provider_analyze(idx, outcome)
              /\ UNCHANGED <<idx, marks>>
         ELSE IF Caught(outcome)
         THEN /\ last_failure_time' = mark_failed(provider_analyze(idx, outcome), idx)
              /\ marks' = [marks EXCEPT ![idx] = @ + 1]
              /\ idx' = idx + 1
              /\ rpc' = "loop"
              /\ UNCHANGED <<last_used, result, ptokens, rtokens>>
         ELSE /\ last_failure_time' = provider_analyze(idx, outcome)
              /\ result' = outcome
              /\ rpc' = "done"
              /\ UNCHANGED <<idx, marks, last_used, ptokens, rtokens>>
    /\ failed_at' = FailedAt(idx, outcome)
    /\ UNCHANGED <<now, startHealthy, checks, calls, lftBefore, healthyAtCheck>>
    /\ UNCHANGED <<pipelineVars, tableVars, retryVars, analyzerVars>>

\* the loop ran out of adapters
RouterExhausted ==
    /\ rpc = "loop"
    /\ idx > NumProviders
    /\ result' = ExhaustedResult
    /\ rpc' = "done"
    /\ UNCHANGED <<now, last_failure_time, last_used, idx, startHealthy, checks, calls,
                   marks, ret, lftBefore, healthyAtCheck, ptokens, rtokens, failed_at>>
    /\ UNCHANGED <<pipelineVars, tableVars, retryVars, analyzerVars>>

\* the caller has the result or the exception
RouterFinish ==
    /\ rpc = "done"
    /\ rpc' = "idle"
    /\ idx' = 0
    /\ result' = "none"
    /\ NoHistory
    /\ UNCHANGED <<now, last_failure_time, last_used, failed_at>>
    /\ UNCHANGED <<pipelineVars, tableVars, retryVars, analyzerVars>>

\* time passes while the event loop is suspended: between requests and
\* during an awaited backend call
Tick ==
    /\ rpc \in {"idle", "call"}
    /\ now < StartTime + MaxTicks
    /\ now' = now + 1
    /\ UNCHANGED <<last_failure_time, last_used, rpc, idx, result, startHealthy, checks,
                   calls, marks, ret, lftBefore, healthyAtCheck, ptokens, rtokens, failed_at>>
    /\ UNCHANGED <<pipelineVars, tableVars, retryVars, analyzerVars>>

NextRouter ==
    \/ RouterStart
    \/ RouterCheck
    \/ \E outcome \in Outcomes : \E tokens \in TokenCounts :
          ProviderReturn(outcome, IF outcome = "ok" THEN tokens ELSE 0)
    \/ RouterExhausted
    \/ RouterFinish
    \/ Tick

SpecRouter == Init /\ [][NextRouter]_vars

\* BaseProvider.mark_failed called on adapter p, by the adapter in its
\* rate-limit handler or by the router: the clock is read at the call
MarkFailed(p) ==
    /\ last_failure_time' = mark_failed(last_failure_time, p)
    /\ failed_at' = [failed_at EXCEPT ![p] = {now}]
    /\ UNCHANGED <<now, last_used, rpc, idx, result, startHealthy, checks, calls, marks,
                   ret, lftBefore, healthyAtCheck, ptokens, rtokens>>
    /\ UNCHANGED <<pipelineVars, tableVars, retryVars, analyzerVars>>

\* the health state of the adapters under mark_failed calls made at any
\* reading of the clock
NextHealth == Tick \/ \E p \in Providers : MarkFailed(p)

SpecHealth == Init /\ [][NextHealth]_vars

\* ------------------------------------------------------------------------
\* retry_on_rate_limit and the functions it decorates
\* ------------------------------------------------------------------------

\* the decorator with its default arguments around a plain function, and
\* the two decorated analyze methods
Decorated == {"plain", "gemini", "openai"}

\* an exception is its class and the markers its lower-cased text contains
Markers == {"429", "quota", "rate_limit", "validation"}
Texts == {{}} \cup {{m} : m \in Markers}

Ok == [cls |-> "ok", msg |-> {}]

\* the class of an exception with its base classes
Ancestors(cls) ==
    CASE cls = "genai.ClientError" -> {"genai.ClientError", "genai.APIError", "Exception"}
      [] cls = "genai.ServerError" -> {"genai.ServerError", "genai.APIError", "Exception"}
      [] cls = "openai.RateLimitError" ->
             {"openai.RateLimitError", "openai.APIStatusError", "openai.APIError", "Exception"}
      [] cls = "openai.APIStatusError" -> {"openai.APIStatusError", "openai.APIError", "Exception"}
      [] cls = "openai.APIConnectionError" ->
             {"openai.APIConnectionError", "openai.APIError", "Exception"}
      [] cls = "RateLimitError" -> {"RateLimitError", "ProviderError", "AnalysisError", "Exception"}
      [] cls = "ProviderError" -> {"ProviderError", "AnalysisError", "Exception"}
      [] cls = "ValidationError" -> {"ValidationError", "AnalysisError", "Exception"}
      [] OTHER -> {"Exception"}

\* the decorator arguments of each decorated function
retries(f) ==
    CASE f = "gemini" -> GEMINI_RETRIES
      [] f = "openai" -> OPENAI_RETRIES
      [] OTHER -> DEFAULT_RETRIES

base_delay(f) ==
    CASE f = "gemini" -> GEMINI_BASE_DELAY
      [] f = "openai" -> OPENAI_BASE_DELAY
      [] OTHER -> DEFAULT_BASE_DELAY

catch_exceptions(f) ==
    CASE f = "gemini" -> {"genai.ClientError", "genai.APIError"}
      [] f = "openai" -> {"openai.RateLimitError", "openai.APIStatusError"}
      [] OTHER -> {"Exception"}

\* what can happen inside the body of each function: the SDK call returns,
\* or it (or the validation of its answer) raises
Inner(f) ==
    {Ok} \cup
    [cls : CASE f = "gemini" -> {"genai.ClientError", "genai.ServerError", "Exception"}
             [] f = "openai" -> {"openai.RateLimitError", "openai.APIStatusError",
                                 "openai.APIConnectionError", "Exception"}
             [] OTHER -> {"Exception"},
     msg : Texts]

\* every 4xx answer puts the adapter on cooldown
gemini_analyze_MarksClientErrors(inner) ==
    IF inner = Ok THEN [out |-> Ok, marked |-> FALSE]
    ELSE IF "genai.ClientError" \in Ancestors(inner.cls)
    THEN IF "429" \in inner.msg \/ "quota" \in inner.msg
         THEN [out |-> [cls |-> "RateLimitError", msg |-> inner.msg], marked |-> TRUE]
         ELSE [out |-> [cls |-> "ProviderError", msg |-> inner.msg], marked |-> TRUE]
    ELSE IF "genai.APIError" \in Ancestors(inner.cls)
    THEN [out |-> [cls |-> "ProviderError", msg |-> inner.msg], marked |-> FALSE]
    ELSE IF "validation" \in inner.msg
    THEN [out |-> [cls |-> "ValidationError", msg |-> inner.msg], marked |-> FALSE]
    ELSE [out |-> [cls |-> "ProviderError", msg |-> inner.msg], marked |-> FALSE]

\* GeminiProvider.analyze: the except clauses
gemini_analyze(inner) ==
    IF inner = Ok THEN [out |-> Ok, marked |-> FALSE]
    ELSE IF "genai.ClientError" \in Ancestors(inner.cls)
    THEN IF "429" \in inner.msg \/ "quota" \in inner.msg
         THEN [out |-> [cls |-> "RateLimitError", msg |-> inner.msg], marked |-> TRUE]
         ELSE [out |-> [cls |-> "ProviderError", msg |-> inner.msg], marked |-> FALSE]
    ELSE IF "genai.APIError" \in Ancestors(inner.cls)
    THEN [out |-> [cls |-> "ProviderError", msg |-> inner.msg], marked |-> FALSE]
    ELSE IF "validation" \in inner.msg
    THEN [out |-> [cls |-> "ValidationError", msg |-> inner.msg], marked |-> FALSE]
    ELSE [out |-> [cls |-> "ProviderError", msg |-> inner.msg], marked |-> FALSE]

\* OpenAIProvider.analyze: the except clauses
openai_analyze(inner) ==
    IF inner = Ok THEN [out |-> Ok, marked |-> FALSE]
    ELSE IF "openai.RateLimitError" \in Ancestors(inner.cls)
    THEN [out |-> [cls |-> "RateLimitError", msg |-> inner.msg], marked |-> TRUE]
    ELSE IF "openai.APIStatusError" \in Ancestors(inner.cls)
    THEN IF "429" \in inner.msg
         THEN [out |-> [cls |-> "RateLimitError", msg |-> inner.msg \cup {"quota"}],
               marked |-> TRUE]
         ELSE [out |-> [cls |-> "ProviderError", msg |-> inner.msg], marked |-> FALSE]
    ELSE IF "openai.APIConnectionError" \in Ancestors(inner.cls)
    THEN [out |-> [cls |-> "ProviderError", msg |-> inner.msg], marked |-> FALSE]
    ELSE IF "validation" \in inner.msg
    THEN [out |-> [cls |-> "ValidationError", msg |-> inner.msg], marked |-> FALSE]
    ELSE [out |-> [cls |-> "ProviderError", msg |-> inner.msg], marked |-> FALSE]

\* "await func(*args, **kwargs)"
func(f, inner) ==
    CASE f = "gemini" -> gemini_analyze(inner)
      [] f = "openai" -> openai_analyze(inner)
      [] OTHER -> [out |-> inner, marked |-> FALSE]

\* "except catch_exceptions as e"
Catches(f, e) == Ancestors(e.cls) \cap catch_exceptions(f) # {}

\* every message counts as a rate-limit signal
IsRateLimitSignal_Always(msg) == TRUE

\* '"429" in err_msg or "quota" in err_msg or "rate_limit" in err_msg'
IsRateLimitSignal(msg) == "429" \in msg \/ "quota" \in msg \/ "rate_limit" \in msg

\* the same delay before every retry
wait_time_Constant(f, n) == base_delay(f)

\* "wait_time = base_delay * (attempt + 1)"
wait_time(f, n) == base_delay(f) * (n + 1)

\* the decorated function is called
DecoratedCall(f) ==
    /\ dpc = "idle"
    /\ dfn' = f
    /\ dpc' = "try"
    /\ UNCHANGED <<attempt, invocations, sleeps, raised, backend, self_marks, dresult>>
    /\ UNCHANGED <<pipelineVars, tableVars, routerVars, analyzerVars>>

\* one call of the wrapped function ends: inside the for loop a caught
\* rate-limit signal leads to the sleep, anything else ends the decorated
\* call; the call after the loop ends it in every case
FuncAnswers(inner) ==
    /\ dpc \in {"try", "last"}
    /\ inner \in Inner(dfn)
    /\ LET r == func(dfn, inner) IN
          /\ invocations' = invocations + 1
          /\ raised' = Append(raised, r.out)
          /\ backend' = Append(backend, inner)
          /\ self_marks' = self_marks + (IF r.marked THEN 1 ELSE 0)
          /\ IF dpc = "try" /\ r.out # Ok /\ Catches(dfn, r.out) /\ IsRateLimitSignal(r.out.msg)
               THEN /\ sleeps' = Append(sleeps, wait_time(dfn, attempt))
                    /\ dpc' = "sleep"
                    /\ UNCHANGED dresult
               ELSE /\ dresult' = r.out
                    /\ dpc' = "done"
                    /\ UNCHANGED sleeps
    /\ UNCHANGED <<dfn, attempt>>
    /\ UNCHANGED <<pipelineVars, tableVars, routerVars, analyzerVars>>

\* no call after the for loop: the last caught error is raised when the
\* loop runs out
SleepEnds_NoFinalCall ==
    /\ dpc = "sleep"
    /\ attempt' = attempt + 1
    /\ IF attempt + 1 < retries(dfn)
         THEN dpc' = "try" /\ UNCHANGED dresult
         ELSE dpc' = "done" /\ dresult' = raised[Len(raised)]
    /\ UNCHANGED <<dfn, invocations, sleeps, raised, backend, self_marks>>
    /\ UNCHANGED <<pipelineVars, tableVars, routerVars, analyzerVars>>

\* asyncio.sleep(wait_time) ends; "continue"
SleepEnds ==
    /\ dpc = "sleep"
    /\ attempt' = attempt + 1
    /\ dpc' = IF attempt + 1 < retries(dfn) THEN "try" ELSE "last"
    /\ UNCHANGED <<dfn, invocations, sleeps, raised, backend, self_marks, dresult>>
    /\ UNCHANGED <<pipelineVars, tableVars, routerVars, analyzerVars>>

\* the caller has the value or the exception
DecoratedEnds ==
    /\ dpc = "done"
    /\ dfn' = "none"
    /\ dpc' = "idle"
    /\ attempt' = 0
    /\ invocations' = 0
    /\ sleeps' = <<>>
    /\ raised' = <<>>
    /\ backend' = <<>>
    /\ self_marks' = 0
    /\ dresult' = NoAnswer
    /\ UNCHANGED <<pipelineVars, tableVars, routerVars, analyzerVars>>

\* the awaited calls and sleeps of a decorated call in progress
RetryProgress == (\E inner \in Inner(dfn) : FuncAnswers(inner)) \/ SleepEnds

NextRetry ==
    \/ \E f \in Decorated : DecoratedCall(f)
    \/ \E f \in Decorated : \E inner \in Inner(f) : FuncAnswers(inner)
    \/ SleepEnds
    \/ DecoratedEnds

\* every awaited backend call answers and every sleep ends
SpecRetry == Init /\ [][NextRetry]_vars /\ WF_vars(RetryProgress)

\* ------------------------------------------------------------------------
\* VacancyAnalyzer.analyze_vacancy
\* ------------------------------------------------------------------------

\* database/enums.py VacancyGrade
VacancyGrade == {"junior", "middle", "senior", "lead", "principal", "intern"}

\* the fields VacancyStructuredData declares without a default
RequiredFacts == {"grade", "work_format", "employment_type"}

\* what self.provider.analyze can raise: an adapter's errors, and the
\* router's AnalysisError when the provider is a SmartChainProvider
AnalyzerErrors == (Outcomes \ {"ok"}) \cup {"AnalysisError"}

\* grades a Stage-1 answer carries, scores a Stage-2 answer carries
AnswerGrades == {"junior", "middle", "senior"}
AnswerScores == {MIN_TRUST_SCORE, MIN_TRUST_SCORE + 1, MAX_TRUST_SCORE}

\* provider.analyze at a stage: raises cls, or returns (item, tokens)
Stage1Answers ==
    [cls : AnalyzerErrors, item : {"none"}, tokens : {0}]
        \cup [cls : {"ok"}, item : AnswerGrades, tokens : TokenCounts]

Stage2Answers ==
    [cls : AnalyzerErrors, item : {MIN_TRUST_SCORE - 1}, tokens : {0}]
        \cup [cls : {"ok"}, item : AnswerScores, tokens : TokenCounts]

\* the value of "await self.provider.analyze(...)": the tuple
\* (result, total_tokens) every LLMProvider returns
Returned(ans) == [kind |-> "tuple", items |-> <<ans.item, ans.tokens>>]

\* attribute access on that value: a tuple has no field of a schema
getattr(x, name) ==
    IF x.kind = "instance" /\ name \in DOMAIN x.fields
        THEN [exc |-> "none", value |-> x.fields[name]]
        ELSE [exc |-> "AttributeError", value |-> "none"]

\* the try block: Stage 1, the log line reading structured_data.grade,
\* Stage 2, the log line reading judgment.trust_score, the assembly
try_body(a1, a2) ==
    IF a1.cls # "ok" THEN [NoOutcome EXCEPT !.raised = a1.cls]
    ELSE IF getattr(Returned(a1), "grade").exc # "none"
        THEN [NoOutcome EXCEPT !.raised = getattr(Returned(a1), "grade").exc]
    ELSE IF a2.cls # "ok" THEN [NoOutcome EXCEPT !.raised = a2.cls]
    ELSE IF getattr(Returned(a2), "trust_score").exc # "none"
        THEN [NoOutcome EXCEPT !.raised = getattr(Returned(a2), "trust_score").exc]
    ELSE [raised |-> "none",
          grade |-> getattr(Returned(a1), "grade").value,
          trust_score |-> getattr(Returned(a2), "trust_score").value,
          verdict |-> "judgment",
          tokens_used |-> 0,
          confidence_score |-> 9,
          error_message |-> "none"]

\* the keyword arguments of VacancyStructuredData(...) in the except clause
FallbackFacts ==
    [tech_stack |-> <<>>, grade |-> "Junior", domain |-> "none", salary_parse |-> "none",
     benefits |-> <<>>, red_flag_keywords |-> <<>>]

\* pydantic validation of VacancyStructuredData(**kwargs): every required
\* field is given and grade is a value of VacancyGrade
ValidStructuredData(kwargs) ==
    /\ RequiredFacts \subseteq DOMAIN kwargs
    /\ kwargs.grade \in VacancyGrade

\* "except Exception as e": the failed result is built and returned, unless
\* building it raises
except_clause(e) ==
    IF ValidStructuredData(FallbackFacts) /\ ValidJudgment(MIN_TRUST_SCORE)
        THEN [raised |-> "none",
              grade |-> FallbackFacts.grade,
              trust_score |-> MIN_TRUST_SCORE,
              verdict |-> "Analysis Failed",
              tokens_used |-> 0,
              confidence_score |-> 0,
              error_message |-> e]
        ELSE [NoOutcome EXCEPT !.raised = "pydantic.ValidationError"]

\* what the call returns, or raises to its caller; confidence in tenths
analyze_vacancy(a1, a2) ==
    IF try_body(a1, a2).raised = "none" THEN try_body(a1, a2)
    ELSE except_clause(try_body(a1, a2).raised)

\* one call, with the answers the provider gives at the two stages
AnalyzeVacancy(a1, a2) ==
    /\ apc = "idle"
    /\ apc' = "done"
    /\ ain' = <<a1, a2>>
    /\ aout' = analyze_vacancy(a1, a2)
    /\ UNCHANGED <<pipelineVars, tableVars, routerVars, retryVars>>

\* the caller has the result or the exception
AnalyzerEnds ==
    /\ apc = "done"
    /\ apc' = "idle"
    /\ ain' = <<>>
    /\ aout' = NoOutcome
    /\ UNCHANGED <<pipelineVars, tableVars, routerVars, retryVars>>

NextAnalyzer ==
    \/ \E a1 \in Stage1Answers : \E a2 \in Stage2Answers : AnalyzeVacancy(a1, a2)
    \/ AnalyzerEnds

SpecAnalyzer == Init /\ [][NextAnalyzer]_vars

\* ------------------------------------------------------------------------
\* Properties
\* ------------------------------------------------------------------------

InStage1(w) == wpc[w] \in {"stage1", "save1"}
InStage2(w) == wpc[w] \in {"stage2", "s2_reset", "s2_insert", "s2_update", "s2_commit"}

\* C1: no record is in Stage 1 with two workers at once, nor in Stage 2
\* with two workers at once.
C1_NoDoubleProcessing ==
    \A w1, w2 \in Workers :
        (w1 # w2 /\ cur[w1] # 0 /\ cur[w1] = cur[w2]) =>
            /\ ~(InStage1(w1) /\ InStage1(w2))
            /\ ~(InStage2(w1) /\ InStage2(w2))

\* the records a worker has claimed and not finished with
Held(w) == batch[w] \cup (IF cur[w] = 0 THEN {} ELSE {cur[w]})

\* C2: the batches the workers got from the claim query are pairwise
\* disjoint: no record is in the hands of two workers.
C2_ClaimsDisjoint ==
    \A w1, w2 \in Workers : w1 # w2 => Held(w1) \cap Held(w2) = {}

Rank(st) ==
    CASE st = ABSENT -> 0
      [] st = "new" -> 1
      [] st = "extracted" -> 2
      [] st = "vectorized" -> 3
      [] st = STRUCTURED -> 4
      [] st = "analyzed" -> 5
      [] OTHER -> 6

\* C3: in every step the status of every stored record stays or moves to
\* the next status of NEW, EXTRACTED, VECTORIZED, STRUCTURED, ANALYZED.
C3_StatusMonotonic ==
    [][\A v \in Ids : status[v] # ABSENT =>
          \/ status'[v] = status[v]
          \/ Rank(status'[v]) = Rank(status[v]) + 1]_vars

ResultsOf(v) == {a \in analyses : a.vacancy_id = v}
CurrentOf(v) == {a \in ResultsOf(v) : a.is_current}

\* C4: a record with at least one analysis result has exactly one current
\* result.
C4_ExactlyOneCurrent ==
    \A v \in Ids : ResultsOf(v) # {} => Cardinality(CurrentOf(v)) = 1

\* C5: a step changes nothing of a record's results and pointer, or it is
\* the whole append: one new result, current; every other result of the
\* record not current; status ANALYZED; the pointer at the new result.
C5_AppendAllOrNothing ==
    [][\A v \in Ids :
          \/ /\ ResultsOf(v)' = ResultsOf(v)
             /\ last_analysis_id'[v] = last_analysis_id[v]
          \/ \E n \in ResultsOf(v)' :
                /\ n.id \notin {a.id : a \in ResultsOf(v)}
                /\ n.is_current
                /\ \A a \in ResultsOf(v)' \ {n} : ~a.is_current
                /\ {a.id : a \in ResultsOf(v)'} = {a.id : a \in ResultsOf(v)} \cup {n.id}
                /\ status'[v] = "analyzed"
                /\ last_analysis_id'[v] = n.id]_vars

\* C6: a record carries the output of a stage write exactly when its status
\* has reached that stage: the description with EXTRACTED, the embedding
\* with VECTORIZED, the Stage-1 attributes with STRUCTURED.
C6_FieldsMatchStatus ==
    \A v \in Ids :
        /\ description[v] <=> Rank(status[v]) >= 2
        /\ embedding[v] <=> Rank(status[v]) >= 3
        /\ (Stage1AttributeKeys \subseteq attributes[v]) <=> Rank(status[v]) >= 4
        /\ (Stage1AttributeKeys \cap attributes[v] = {}) <=> Rank(status[v]) < 4

\* exactly the adapters 1..j were unhealthy when the request started
UnhealthyPrefix(j) == startHealthy = (j + 1)..NumProviders

\* adapters 1..j were each health-checked once and not invoked, adapter
\* j+1 served the request, no adapter after it was touched
ServedBy(j) ==
    /\ result = "ok"
    /\ last_used = j + 1
    /\ checks[j + 1] = 1 /\ calls[j + 1] = 1
    /\ \A p \in 1..j : checks[p] = 1 /\ calls[p] = 0
    /\ \A p \in (j + 2)..NumProviders : checks[p] = 0 /\ calls[p] = 0

\* C7 as stated: with exactly adapters 1..j unhealthy the request succeeds
\* on adapter j+1, adapters 1..j getting one skipped attempt each.
C7_Original ==
    \A j \in 0..(NumProviders - 1) :
        (rpc = "done" /\ UnhealthyPrefix(j)) => ServedBy(j)

\* C7 (amended): with exactly adapters 1..j unhealthy and adapter j+1's call
\* returning a result, the request succeeds on adapter j+1; adapters 1..j
\* are each health-checked once and not invoked, no later adapter is touched.
C7_PrefixSkipped ==
    \A j \in 0..(NumProviders - 1) :
        (rpc = "done" /\ UnhealthyPrefix(j) /\ ret[j + 1] = "ok") => ServedBy(j)

\* two adapters on cooldown, the third serves the request
C7_Witness ==
    /\ rpc = "done"
    /\ NumProviders >= 3
    /\ UnhealthyPrefix(2)
    /\ ret[3] = "ok"

\* C8: once an adapter has raised ValidationError the request is over with
\* that error: the router has not marked the adapter, its failure time is
\* what it was at invocation, and no later adapter is checked or invoked.
C8_ValidationPropagates ==
    \A p \in Providers :
        ret[p] = "ValidationError" =>
            /\ rpc = "done"
            /\ result = "ValidationError"
            /\ marks[p] = 0
            /\ last_failure_time[p] = lftBefore
            /\ \A q \in (p + 1)..NumProviders : checks[q] = 0 /\ calls[q] = 0

\* the first adapter is healthy and raises ValidationError, others follow it
C8_Witness ==
    /\ 1 \in startHealthy
    /\ ret[1] = "ValidationError"
    /\ rpc = "done"
    /\ NumProviders > 1

\* C9: a request that starts with every adapter unhealthy invokes no
\* adapter and ends with AnalysisError.
C9_AllUnhealthy ==
    (rpc # "idle" /\ startHealthy = {}) =>
        /\ rpc # "call"
        /\ \A p \in Providers : calls[p] = 0
        /\ rpc = "done" => result = "AnalysisError"

C9_Witness ==
    /\ rpc = "done"
    /\ startHealthy = {}
    /\ \A p \in Providers : checks[p] = 1

ProviderErrors == {"RateLimitError", "ProviderError", "ContentFilterError"}

\* C10: an adapter whose call raised RateLimitError or a ProviderError has
\* been marked failed by the router once, is unhealthy when the loop moves
\* on, was invoked once, and the loop is past it.
C10_FailedAdapterMarked ==
    \A p \in Providers :
        ret[p] \in ProviderErrors =>
            /\ marks[p] = 1
            /\ calls[p] = 1
            /\ idx > p
            /\ result # ret[p]
            /\ (rpc = "loop" /\ idx = p + 1) => (~is_healthy(p) /\ last_failure_time[p] = now)

\* an adapter failed with a ProviderError subtype and the next one served
C10_Witness ==
    \E p \in Providers :
        /\ ret[p] = "ContentFilterError"
        /\ p < NumProviders
        /\ ret[p + 1] = "ok"
        /\ rpc = "done"

\* C11: a request in which no adapter returned a result and every call
\* failed with RateLimitError or a ProviderError ends with the aggregate
\* AnalysisError; every adapter was health-checked once, the adapters that
\* answered healthy were invoked once and marked failed, the others were
\* neither invoked nor marked.
C11_TotalCollapse ==
    (rpc = "done" /\ \A p \in Providers : ret[p] \in ProviderErrors \cup {"none"}) =>
        /\ result = "AnalysisError"
        /\ result \notin ProviderErrors
        /\ \A p \in Providers :
              /\ checks[p] = 1
              /\ calls[p] = (IF p \in healthyAtCheck THEN 1 ELSE 0)
              /\ marks[p] = calls[p]
              /\ (p \in healthyAtCheck) <=> (ret[p] \in ProviderErrors)

\* one adapter on cooldown, one fails with RateLimitError, one with ProviderError
C11_Witness ==
    /\ rpc = "done"
    /\ result = "AnalysisError"
    /\ \E p, q, r \in Providers :
          /\ ret[p] = "none" /\ checks[p] = 1
          /\ ret[q] = "RateLimitError"
          /\ ret[r] = "ProviderError"

\* C12: when an adapter's call has returned a result the request is over
\* with that result and token count, the adapter is the last-used one, the
\* reported provider and model name are its names, and no adapter after it
\* has been health-checked or invoked.
C12_SuccessReturnsAtOnce ==
    \A p \in Providers :
        ret[p] = "ok" =>
            /\ rpc = "done"
            /\ result = "ok"
            /\ rtokens = ptokens
            /\ last_used = p
            /\ provider_name = p
            /\ model_name = p
            /\ \A q \in (p + 1)..NumProviders : checks[q] = 0 /\ calls[q] = 0

\* the first adapter fails, the second serves and reports MaxTokens tokens
C12_Witness ==
    /\ rpc = "done"
    /\ NumProviders > 2
    /\ ret[2] = "ok"
    /\ ret[1] \in ProviderErrors
    /\ rtokens = MaxTokens

\* a rate-limit signal as the decorator of f recognises it: an exception
\* of one of its catch_exceptions classes whose text carries a marker
Signals(f, e) ==
    /\ e.cls # "ok"
    /\ Ancestors(e.cls) \cap catch_exceptions(f) # {}
    /\ e.msg \cap {"429", "quota", "rate_limit"} # {}

EveryAnswerSignals == \A i \in 1..Len(raised) : Signals(dfn, raised[i])

C14_AdapterRetries ==
    (dpc = "done" /\ dfn \in {"gemini", "openai"} /\ dresult.cls = "RateLimitError") =>
        /\ invocations = retries(dfn) + 1
        /\ Len(sleeps) = retries(dfn)

\* C15: an answer of the wrapped call that is an error and no rate-limit
\* signal ends the decorated call with that error, without a sleep after
\* it; as the answer of the first attempt, after one call and no sleep.
C15_OtherErrorsPropagate ==
    \A i \in 1..Len(raised) :
        (raised[i].cls # "ok" /\ ~Signals(dfn, raised[i])) =>
            /\ dpc = "done"
            /\ dresult = raised[i]
            /\ invocations = i
            /\ Len(sleeps) = i - 1
            /\ i = 1 => (invocations = 1 /\ sleeps = <<>>)

\* the plain function raises an exception without a marker at once
C15_Witness ==
    /\ dfn = "plain"
    /\ Len(raised) = 1
    /\ raised[1] = [cls |-> "Exception", msg |-> {}]
    /\ dpc = "done"

Failed(w) == exc[w].cls # "none"

\* C16: the step in which process_vacancy catches an exception takes the
\* worker to the pacing sleep with the rest of its batch untouched; after
\* the sleep the loop takes up a remaining record of the batch, or polls
\* when none is left.
C16_FailureKeepsLoop ==
    [][\A w \in Workers :
          /\ (~Failed(w) /\ Failed(w)') =>
                /\ wpc'[w] = "pace"
                /\ batch'[w] = batch[w] \ {cur'[w]}
          /\ (Failed(w) /\ wpc[w] = "pace" /\ wpc'[w] # "pace") =>
                /\ batch'[w] = batch[w]
                /\ wpc'[w] = (IF batch[w] # {} THEN "next" ELSE "poll")
          /\ (wpc[w] = "next" /\ wpc'[w] # "next") =>
                /\ cur'[w] \in batch[w]
                /\ batch'[w] = batch[w] \ {cur'[w]}]_vars

\* Stage 1 of a record has failed while another record of the batch waits
C16_Witness ==
    \E w \in Workers :
        /\ wpc[w] = "pace"
        /\ exc[w] = [cls |-> "ProviderError", at |-> "stage1"]
        /\ batch[w] # {}

\* a persisted technical-failure result
IsFailureResult(a) == a.trust_score = 0 /\ a.error_message

\* C17: when process_vacancy is over for a record whose analysis failed,
\* the record has a persisted technical-failure result and is no longer
\* VECTORIZED or STRUCTURED.
C17_FailedRecordLeavesQueue ==
    \A w \in Workers :
        (wpc[w] = "pace" /\ exc[w].cls \in StageErrors) =>
            /\ status[cur[w]] \notin {"vectorized", STRUCTURED}
            /\ \E a \in ResultsOf(cur[w]) : IsFailureResult(a)

\* C18: when process_vacancy is over for a record whose Stage 2 raised
\* ProviderError (Stage 2 only runs on stored Stage-1 facts), the current
\* result of the record
\* is a technical-failure result (trust_score 0, error_message set) and the
\* Stage-1 attributes are on the record.
C18_Stage2FailurePersisted ==
    \A w \in Workers :
        (wpc[w] = "pace" /\ exc[w] = [cls |-> "ProviderError", at |-> "stage2"]) =>
            /\ \E a \in CurrentOf(cur[w]) : IsFailureResult(a)
            /\ Stage1AttributeKeys \subseteq attributes[cur[w]]

\* C19: a persisted result has trust_score 0 exactly when it is a
\* technical-failure result with an error_message.
C19_ZeroMeansFailure ==
    \A a \in analyses : (a.trust_score = 0) <=> a.error_message

C21_Stage1BeforeStage2 ==
    [][\A w \in Workers :
          /\ (wpc[w] # "stage2" /\ wpc'[w] = "stage2") =>
                \/ /\ wpc[w] = "save1"
                   /\ status'[cur'[w]] = STRUCTURED
                   /\ Stage1AttributeKeys \subseteq attributes'[cur'[w]]
                \/ /\ wpc[w] = "next"
                   /\ status[cur'[w]] \in {STRUCTURED, "analyzed"}
                   /\ Stage1AttributeKeys \subseteq attributes[cur'[w]]
          /\ InStage2(w)' => ~Failed(w)'
          /\ (wpc[w] \in {"stage1", "save1"} /\ Failed(w)') => wpc'[w] = "pace"]_vars

\* Stage 2 runs on a record whose Stage 1 has been saved
C21_Witness ==
    \E w \in Workers :
        /\ wpc[w] = "stage2"
        /\ status[cur[w]] = STRUCTURED
        /\ Stage1AttributeKeys \subseteq attributes[cur[w]]

C25_NotifierDetached ==
    [][\A w \in Workers :
          wpc[w] = "notify" =>
              /\ status[cur[w]] = "analyzed"
              /\ \E a \in CurrentOf(cur[w]) : a.id = last_analysis_id[cur[w]]
              /\ wpc'[w] # "notify" =>
                    /\ wpc'[w] = "pace"
                    /\ UNCHANGED <<status, description, embedding, attributes,
                                   last_analysis_id, analyses>>]_vars

\* the notifier raised after the commit, another record waits in the batch
C25_Witness ==
    \E w \in Workers :
        /\ wpc[w] = "pace"
        /\ exc[w] = [cls |-> "NotifierError", at |-> "notify"]
        /\ status[cur[w]] = "analyzed"
        /\ batch[w] # {}

\* C28: an adapter answers healthy exactly when it was never marked failed
\* or more than the cooldown has passed since its latest mark_failed call;
\* at every time up to and including that call's time plus the cooldown it
\* answers unhealthy; an unhealthy adapter becomes healthy only in a step
\* in which time advances.
C28_HealthIsCooldown ==
    /\ [](\A p \in Providers :
            is_healthy(p) <=> \A t \in failed_at[p] : now > t + CooldownTicks)
    /\ [][\A p \in Providers : (~is_healthy(p) /\ is_healthy(p)') => now' > now]_vars

\* an adapter marked failed is checked at the last tick of its cooldown and
\* skipped, while an adapter that never failed is healthy
C28_Witness ==
    \E p, q \in Providers :
        /\ failed_at[p] = {now - CooldownTicks}
        /\ rpc = "loop"
        /\ checks[p] = 1
        /\ calls[p] = 0
        /\ failed_at[q] = {}
        /\ is_healthy(q)

\* C30: a request begins its loop at the first adapter whichever adapter
\* served the previous one, the adapters examined form a prefix of the list,
\* and when the first adapter is healthy as the request starts no adapter is
\* invoked before it and, if its call succeeds, no other adapter is
\* examined or invoked.
C30_PriorityList ==
    /\ [][(rpc = "idle" /\ rpc' = "loop") => idx' = 1]_vars
    /\ [](rpc # "idle" =>
            /\ \A p, q \in Providers : (checks[q] > 0 /\ p < q) => checks[p] > 0
            /\ 1 \in startHealthy =>
                  /\ \A p \in Providers : calls[p] > 0 => calls[1] = 1
                  /\ ret[1] = "ok" =>
                        \A p \in Providers \ {1} : checks[p] = 0 /\ calls[p] = 0)

\* the second adapter served the previous request; the next request finds
\* the first adapter healthy and invokes it, and nothing else
C30_Witness ==
    /\ last_used = 2
    /\ rpc = "call"
    /\ idx = 1
    /\ 1 \in startHealthy
    /\ calls = [p \in Providers |-> IF p = 1 THEN 1 ELSE 0]

\* a rate-limit answer as the SDKs present it: a 4xx error of the Gemini
\* SDK whose text carries 429 or a quota message, the OpenAI SDK's error
\* class for HTTP 429, or an OpenAI status error whose text carries 429
RateLimitSignal(f, inner) ==
    CASE f = "gemini" ->
             inner.cls = "genai.ClientError" /\ ("429" \in inner.msg \/ "quota" \in inner.msg)
      [] f = "openai" ->
             \/ inner.cls = "openai.RateLimitError"
             \/ inner.cls = "openai.APIStatusError" /\ "429" \in inner.msg
      [] OTHER -> FALSE

\* C29: in every call of an adapter's analyze, a rate-limit answer of the
\* backend makes the adapter call mark_failed on itself and raise
\* RateLimitError; when the backend answers anything else the adapter
\* raises another error (or returns) and does not call mark_failed.
C29_RateLimitMarksSelf ==
    dfn \in {"gemini", "openai"} =>
        /\ Len(backend) = Len(raised)
        /\ \A i \in 1..Len(backend) :
              raised[i].cls = "RateLimitError" <=> RateLimitSignal(dfn, backend[i])
        /\ self_marks = Cardinality({i \in 1..Len(raised) : raised[i].cls = "RateLimitError"})

\* the Gemini backend answered 429: the adapter marked itself and raised
\* RateLimitError
C29_Witness ==
    /\ dfn = "gemini"
    /\ dpc = "done"
    /\ backend = <<[cls |-> "genai.ClientError", msg |-> {"429"}]>>
    /\ dresult.cls = "RateLimitError"
    /\ self_marks = 1

\* the positions inside process_vacancy
Processing == {"stage1", "save1", "stage2", "s2_reset", "s2_insert", "s2_update",
               "s2_commit", "notify"}

C27_ShutdownTerminates ==
    \A w \in {1} : stop_event[w] ~> (wpc[w] = "stopped")

\* the flag is set and the worker has left the loop and disposed of the
\* engine, leaving a record that still waits for Stage 1
C27_Witness ==
    /\ stop_event[1]
    /\ wpc[1] = "stopped"
    /\ \E v \in Ids : status[v] = "vectorized"

\* the facts an attributes object holds: its keys and the elements under
\* each key
FactsOf(a) == UNION {{<<k, e>> : e \in a[k]} : k \in DOMAIN a}

\* C23: a save_stage1_result on a row keeps every key and every element
\* (of tech_stack, benefits, red_flag_keywords, and the domain) that the
\* row's attributes held before it.
C23_Stage1MergeKeepsFacts ==
    [][last_op'.name = "save_stage1_result" =>
          \A r \in table :
              /\ DOMAIN r.attributes \subseteq DOMAIN Row(table', r.id).attributes
              /\ FactsOf(r.attributes) \subseteq FactsOf(Row(table', r.id).attributes)]_vars

\* C24: a batch_upsert leaves every stored row as it was, status and
\* attributes included, inserts rows only for hashes not stored before,
\* one for each, and returns the number of rows it inserted; at all times
\* no two rows share an identity hash.
C24_UpsertIdempotent ==
    /\ [][last_op'.name = "batch_upsert" =>
            /\ table \subseteq table'
            /\ \A r \in table' \ table :
                  /\ \A q \in table : q.identity_hash # r.identity_hash
                  /\ \E i \in 1..Len(last_op'.arg) : last_op'.arg[i] = r.identity_hash
            /\ returned' = Cardinality(table') - Cardinality(table)]_vars
    /\ [](\A r, q \in table : r.identity_hash = q.identity_hash => r = q)

\* a batch of two entries that repeats the hash of a row already ANALYZED
\* and brings one new hash: one row inserted, the stored row untouched
C24_Witness ==
    /\ last_op.name = "batch_upsert"
    /\ Len(last_op.arg) = MaxBatch
    /\ returned = 1
    /\ \E r \in table : r.status = "analyzed" /\ r.identity_hash = last_op.arg[1]
    /\ \E r \in table : r.status = "new" /\ r.identity_hash = last_op.arg[MaxBatch]

\* the adapters that were healthy when the request started and whose call
\* did not return a result in it: not invoked, or invoked and raising
Unserved == {p \in startHealthy : ret[p] # "ok"}

\* C31 as stated: a request that had a healthy adapter whose call succeeds
\* returns success; so a request that ended without success invoked every
\* adapter that was healthy at its start, and each of those calls raised.
C31_Original ==
    (rpc = "done" /\ result # "ok") =>
        \A p \in startHealthy : calls[p] = 1 /\ ret[p] \in Outcomes \ {"ok"}

\* C31 (amended): a request in which no adapter raises ValidationError
\* returns success unless every adapter healthy at its start was invoked
\* and raised RateLimitError or a ProviderError; unhealthy or failing
\* adapters ahead of a healthy one do not keep the request from reaching it.
\* A ValidationError ends the request with the adapters after it untried.
C31_FallbackReachesHealthy ==
    /\ (rpc = "done" /\ result \notin {"ok", "ValidationError"}) =>
          /\ result = "AnalysisError"
          /\ \A p \in startHealthy : calls[p] = 1 /\ ret[p] \in ProviderErrors
    /\ (rpc = "done" /\ result = "ValidationError") =>
          \E p \in Providers :
              /\ ret[p] = "ValidationError"
              /\ \A q \in Unserved : q < p => ret[q] \in ProviderErrors
    /\ (rpc = "done" /\ result = "ok") => ret[last_used] = "ok"

\* the first adapter is on cooldown, the second is healthy and fails, the
\* third is healthy and serves the request
C31_Witness ==
    /\ rpc = "done"
    /\ result = "ok"
    /\ NumProviders >= 3
    /\ startHealthy = {2, 3}
    /\ checks[1] = 1 /\ calls[1] = 0
    /\ ret[2] = "ProviderError"
    /\ ret[3] = "ok"

C35_StageBatchesDisjoint ==
    \A y, z \in Vectorizers : y # z => vbatch[y] \cap vbatch[z] = {}

\* C34: a worker in its idle wait with the stop flag set leaves the wait
\* and stops, whether or not the timer ever expires; the wait is left only
\* for the loop condition, from where a set flag leads to the exit without
\* a claim query and a clear flag to the next claim query.
C34_IdleWaitInterruptible ==
    /\ (wpc[1] = "idle" /\ stop_event[1]) ~> (wpc[1] = "stopped")
    /\ [][(wpc[1] = "idle" /\ wpc'[1] # "idle") => wpc'[1] = "poll"]_vars
    /\ [][(wpc[1] = "poll" /\ wpc'[1] # "poll") =>
            wpc'[1] = (IF stop_event[1] THEN "dispose" ELSE "query")]_vars

\* the flag is set while the worker sits in the idle wait after an empty
\* claim
C34_Witness ==
    /\ wpc[1] = "idle"
    /\ stop_event[1]
    /\ batch[1] = {}
    /\ get_vacancies_for_llm_processing(LLM_BATCH_LIMIT) = {{}}

\* C39: with one crawler, one vectorizer and one LLM worker every change
\* of a record's status is the move to the next status of NEW, EXTRACTED,
\* VECTORIZED, STRUCTURED, ANALYZED, made by the process whose stage reads
\* the status it replaces: the crawler on a record of its NEW batch, the
\* vectorizer on a record of its EXTRACTED batch, the worker's Stage-1 save
\* on a VECTORIZED record and its Stage-2 commit on a STRUCTURED record.
C39_StatusSequence ==
    [][\A v \in Ids : status'[v] # status[v] =>
          \/ status[v] = ABSENT /\ status'[v] = "new"
          \/ /\ status[v] = "new" /\ status'[v] = "extracted"
             /\ v \in cbatch /\ v \notin cbatch'
          \/ /\ status[v] = "extracted" /\ status'[v] = "vectorized"
             /\ v \in vbatch[1] /\ vbatch'[1] = {}
          \/ /\ status[v] = "vectorized" /\ status'[v] = STRUCTURED
             /\ cur[1] = v /\ wpc[1] = "save1"
          \/ /\ status[v] = STRUCTURED /\ status'[v] = "analyzed"
             /\ cur[1] = v /\ wpc[1] = "s2_commit"]_vars

\* both records have gone through every stage
C39_Witness ==
    /\ \A v \in Ids : status[v] = "analyzed" /\ description[v] /\ embedding[v]
    /\ Cardinality(analyses) = NumVacancies
    /\ wpc[1] = "idle"

\* C40: an ANALYZED record's last_analysis_id is set and is the id of a
\* current result of the same record; a record has a result exactly when
\* its pointer is set, and its results and pointer change only in the step
\* in which a Stage-2 save of that record commits, so a record that has not
\* completed Stage 2 has a null pointer and no results.
C40_PointerAtCurrent ==
    /\ [](\A v \in Ids :
            /\ (status[v] = "analyzed" \/ last_analysis_id[v] # 0) =>
                  \E a \in analyses :
                      /\ a.id = last_analysis_id[v]
                      /\ a.id # 0
                      /\ a.vacancy_id = v
                      /\ a.is_current
            /\ (ResultsOf(v) = {}) <=> (last_analysis_id[v] = 0))
    /\ [][\A v \in Ids :
            (ResultsOf(v)' # ResultsOf(v) \/ last_analysis_id'[v] # last_analysis_id[v]) =>
                \E w \in Workers :
                    /\ cur[w] = v
                    /\ wpc[w] = "s2_commit"
                    /\ wpc'[w] = "notify"
                    /\ status'[v] = "analyzed"]_vars

\* one record ANALYZED with its pointer at its result while the Stage-2
\* save of the other record has inserted its row and not yet committed
C40_Witness ==
    \E v, u \in Ids :
        /\ status[v] = "analyzed"
        /\ last_analysis_id[v] # 0
        /\ wpc[1] = "s2_commit" /\ cur[1] = u /\ ins[1] # 0
        /\ last_analysis_id[u] = 0
        /\ ResultsOf(u) = {}

\* C32: every analysis result stored before a step is stored after it with
\* the same id, record, judgment, error message and token count; its
\* current flag is left or cleared, never set again; so the number of
\* results of a record never decreases.
C32_ResultsAppendOnly ==
    [][/\ \A a \in analyses : \E b \in analyses' :
              /\ b.id = a.id
              /\ b.vacancy_id = a.vacancy_id
              /\ b.trust_score = a.trust_score
              /\ b.error_message = a.error_message
              /\ b.tokens_used = a.tokens_used
              /\ b.is_current => a.is_current
       /\ \A v \in Ids : Cardinality(ResultsOf(v)') >= Cardinality(ResultsOf(v))]_vars

\* a record analysed twice: the earlier result is kept, superseded, next
\* to the current one
C32_Witness ==
    \E a, b \in ResultsOf(1) :
        /\ a.id < b.id
        /\ ~a.is_current
        /\ a.trust_score = MAX_TRUST_SCORE
        /\ b.is_current
        /\ last_analysis_id[1] = b.id

\* C33: a step leaves the failure time of an adapter that has been marked
\* failed and is still in its cooldown as it was, and with it the moment
\* the cooldown ends: a further mark_failed call changes nothing.
C33_MarkFailedIdempotent ==
    [][\A p \in Providers :
          (failed_at[p] # {} /\ ~is_healthy(p)) =>
              /\ last_failure_time'[p] = last_failure_time[p]
              /\ last_failure_time'[p] + CooldownTicks = last_failure_time[p] + CooldownTicks]_vars

\* C36: a finished analyze_vacancy call has raised nothing; when a stage
\* call raised, its result has trust_score 0, verdict "Analysis Failed",
\* confidence 0.0, tokens 0 and the error message set; otherwise it carries
\* the Stage-1 facts and the Stage-2 judgment with no error message.
C36_NeverRaises ==
    apc = "done" =>
        /\ aout.raised = "none"
        /\ IF ain[1].cls # "ok" \/ ain[2].cls # "ok"
             THEN /\ aout.trust_score = 0
                  /\ aout.verdict = "Analysis Failed"
                  /\ aout.confidence_score = 0
                  /\ aout.tokens_used = 0
                  /\ aout.error_message # "none"
             ELSE /\ aout.grade = ain[1].item
                  /\ aout.trust_score = ain[2].item
                  /\ aout.error_message = "none"

====
